---- MODULE Spec2Model ----
(***************************************************************************)
(* Verification model of MSLNZ/rpi-ocr.                                    *)
(*                                                                         *)
(*  - the OCR dispatch queue of an ROIPreview (ocr/gui/roi_preview.py):    *)
(*    the GUI thread (producer: apply_ocr, closeEvent, on_update_text) and *)
(*    the OCRWorker thread (consumer: process), interleaved at the         *)
(*    granularity of the individual Queue operations;                      *)
(*  - the image-processing pipeline ocr.process (ocr/__init__.py) over     *)
(*    small single-channel images and the operations of ocr/utils.py;      *)
(*  - the functions of ocr/utils.py themselves (conversions between the    *)
(*    image representations, transforms) over every representation;        *)
(*  - the zoom geometry rotate_zoom of ocr/gui.py.                         *)
(***************************************************************************)
EXTENDS Integers, Sequences, FiniteSets, TLC

VARIABLES
    \* ---- ROIPreview / OCRWorker ----
    queue,      \* ROIPreview.queue: the items put and not yet got (FIFO)
    ppc,        \* position of the GUI thread
    pend,       \* the locals (function, image, widget.name, params) of the running apply_ocr
    wpc,        \* position of the OCRWorker thread inside process()
    cur,        \* the item the worker unpacked at line 51
    text,       \* the worker's local variable text
    signals,    \* sig_ocr_text emissions queued for the GUI thread
    ocr_text,   \* the text shown by the QLabel ROIPreview.ocr_text
    led,        \* ROIPreview.led is on
    ask_cache,  \* ROIPreview.ask_cache
    \* ---- history of the dispatch (not program state) ----
    reqs,       \* reqs[i]: what the i-th trigger that reached line 251 asked for
    calls,      \* the backend invocations, in order: what line 56 was called with
    inflight,   \* ids of the backend invocations that started and have not ended
    emitted,    \* the sig_ocr_text emissions, in order: [id, text]
    discarded,  \* ids of the requests removed from the queue by apply_ocr (line 256)
    raised,     \* ids of the requests whose backend invocation raised
    burst,      \* ids put since the worker last dequeued anything
    timedout,   \* ocr_thread.stop(10000) returned because the 10 s elapsed
    cached,     \* ocr_params['rois'] holds the settings of this preview
    superseded, \* ids that were put, and not yet got by the worker, when a newer one was put
    \* ---- ocr.process ----
    p_in,             \* the argument image
    p_tasks,          \* the argument tasks
    p_transform_only, \* the argument transform_only
    p_lt36,           \* sys.version_info[:2] < (3, 6)
    p_pc,             \* position inside process()
    p_i,              \* index of the next item of the for loop
    p_image,          \* the local variable image
    p_err,            \* the exception process() raised
    p_calls,          \* history: the operation calls made, in order
    \* ---- calls of the functions of ocr.utils, one on the result of the other ----
    u_hist,     \* u_hist[1] is the first argument, u_hist[k+1] what call k returned
    u_ops,      \* the calls made, in order: [name, args]
    u_err,      \* the exception the last call raised, "" if none
    \* ---- rotate_zoom ----
    g_in,       \* the arguments [angle, x, y, w, h, width, height]
    g_pc,       \* "start", "done"
    g_out,      \* what rotate_zoom returned
    \* ---- the Gui of ocr/gui.py ----
    zoom_history,   \* Gui.zoom_history
    ocr_params,     \* Gui.ocr_params: the keys 'zoom' and 'rotate'
    client_queue,   \* Gui.client_queue: the key 'set_zoom'
    rotate_slider,  \* the value of Gui.rotate_slider
    z_last,         \* history: the handler that ran last, and the rectangle dragged
    \* ---- Configure of ocr/gui/__init__.py ----
    c_zoom_history, \* Configure.zoom_history
    c_zoom_roi,     \* Configure.zoom_roi is not None
    c_paused,       \* Configure.is_capture_paused
    c_capture,      \* the capture thread: "running", "finished" (captured is due), "stopped"
    c_snapshot,     \* capture_thread.settings['zoom']
    c_displayed,    \* camera_settings.settings['zoom']
    c_camera,       \* the zoom of the camera
    c_remote,       \* the camera is a RemoteCamera
    c_last,         \* history: the handler that ran last
    \* ---- ROIPreview: the cache prompt (GUI thread only) ----
    cropped,        \* ROIPreview.cropped
    r_roi,          \* the array slice (x, y, w, h) of the ROI in the main image
    r_image,        \* main_image_item.image
    r_tasks,        \* the task list
    r_tab,          \* name of the current tab's algorithm widget
    r_params,       \* the parameter widgets of the current tab
    r_pc,           \* "off", "open", "closed"
    r_modified,     \* history: tasks or parameters were modified since the last cache()
    r_asked,        \* history: closeEvent asked whether to keep the settings
    \* ---- ssocr._run ----
    s_in,           \* the process: [found, stdout, stderr] and the argument debug
    s_pc,           \* "start", "done"
    s_out           \* what _run returned or raised

qvars == <<queue, ppc, pend, wpc, cur, text, signals, ocr_text, led, ask_cache,
           reqs, calls, inflight, emitted, discarded, raised, burst, timedout, cached, superseded>>

pvars == <<p_in, p_tasks, p_transform_only, p_lt36, p_pc, p_i, p_image, p_err, p_calls>>

uvars == <<u_hist, u_ops, u_err>>

gvars == <<g_in, g_pc, g_out>>

zvars == <<zoom_history, ocr_params, client_queue, rotate_slider, z_last>>

cvars == <<c_zoom_history, c_zoom_roi, c_paused, c_capture, c_snapshot, c_displayed,
           c_camera, c_remote, c_last>>

rvars == <<cropped, r_roi, r_image, r_tasks, r_tab, r_params, r_pc, r_modified, r_asked>>

svars == <<s_in, s_pc, s_out>>

vars == <<qvars, pvars, uvars, gvars, zvars, cvars, rvars, svars>>

----------------------------------------------------------------------------
(* Bounds of the model *)

\* number of apply_ocr calls that reach the queue
MaxTriggers == 3
\* length of the task sequences given to process
MaxTasks == 3
\* number of calls of ocr.utils functions made one after the other
MaxOps == 2
\* length of the zoom history of the Gui
MaxZooms == 2

----------------------------------------------------------------------------
(* ROIPreview and OCRWorker: ocr/gui/roi_preview.py *)

\* What the widgets can hold when apply_ocr runs: the processed image, the
\* name of the selected tab and the parameters of that tab's widget.
Images == {"img1", "img2"}
Algorithms == {"tesseract", "ssocr"}
Parameters == {"p1", "p2"}
\* the combinations of them the triggers of the model draw from
WidgetStates == {<<"img1", "tesseract", "p1">>, <<"img2", "ssocr", "p2">>}

\* What the backend function can return as text, and what it can raise.
\* KeyboardInterrupt and SystemExit derive from BaseException only.
Texts == {"123"}
Raisable == {"RuntimeError", "SystemExit"}
ExceptionSubclasses == {"RuntimeError"}

NoItem == [function |-> "None", image |-> "None", algorithm |-> "None",
           parameters |-> "None", id |-> 0]

\* closeEvent, line 187: (None, None, None, None)
Sentinel == NoItem

\* Queue.empty(), line 255
QueueEmptyNever(q) == TRUE
QueueEmpty(q) == q = <<>>

\* the tuple put at line 258 (id is the history's name for it)
RequestItemStale(image, algorithm, parameters, id) ==
    [function |-> "apply", image |-> image, algorithm |-> algorithm,
     parameters |-> "p1", id |-> id]
RequestItem(image, algorithm, parameters, id) ==
    [function |-> "apply", image |-> image, algorithm |-> algorithm,
     parameters |-> parameters, id |-> id]

\* line 52: "if not function"
IsSentinelNever(item) == FALSE
IsSentinel(item) == item.function = "None"

\* line 59: "except BaseException" catches whatever is raised
CaughtException(e) == e \in ExceptionSubclasses
Caught(e) == e \in Raisable

\* the worker is at line 51, about to block in queue.get()
WorkerReadyAnytime == wpc \in {"get", "call"}
WorkerReady == wpc = "get"

\* ids of the requests that were put (line 258 executed)
PutIds == {i \in 1..Len(reqs) : ~(ppc \in {"empty", "get", "put"} /\ i = pend.id)}
\* ids of the requests the backend was invoked with
CallIds == {calls[k].id : k \in 1..Len(calls)}
\* ids of the items in the queue
QueuedIds == {queue[k].id : k \in 1..Len(queue)}

QueueInit ==
    /\ queue = <<>>
    /\ ppc = "idle"
    /\ pend = NoItem
    /\ wpc = "get"
    /\ cur = NoItem
    /\ text = ""
    /\ signals = <<>>
    /\ ocr_text = ""
    /\ led = FALSE
    /\ ask_cache = FALSE
    /\ reqs = <<>>
    /\ calls = <<>>
    /\ inflight = {}
    /\ emitted = <<>>
    /\ discarded = {}
    /\ raised = {}
    /\ burst = <<>>
    /\ timedout = FALSE
    /\ cached = FALSE
    /\ superseded = {}

\* no call of process is in progress
ProcessOff ==
    /\ p_in = [ext |-> "", px |-> <<>>]
    /\ p_tasks = [kind |-> "None", items |-> <<>>, keys |-> <<>>, val |-> <<>>]
    /\ p_transform_only = FALSE
    /\ p_lt36 = FALSE
    /\ p_pc = "off"
    /\ p_i = 0
    /\ p_image = [ext |-> "", px |-> <<>>]
    /\ p_err = ""
    /\ p_calls = <<>>

\* no function of ocr.utils has been called
UtilsOff ==
    /\ u_hist = <<>>
    /\ u_ops = <<>>
    /\ u_err = ""

\* rotate_zoom has not been called
GeometryOff ==
    /\ g_in = <<>>
    /\ g_pc = "off"
    /\ g_out = <<>>

\* no Gui has been created
GuiOff ==
    /\ zoom_history = <<>>
    /\ ocr_params = [zoom |-> <<>>, rotate |-> 0]
    /\ client_queue = <<>>
    /\ rotate_slider = 0
    /\ z_last = [handler |-> "off", rect |-> <<>>]

\* no Configure has been created
ConfigureOff ==
    /\ c_zoom_history = <<>>
    /\ c_zoom_roi = FALSE
    /\ c_paused = FALSE
    /\ c_capture = "off"
    /\ c_snapshot = <<>>
    /\ c_displayed = <<>>
    /\ c_camera = <<>>
    /\ c_remote = FALSE
    /\ c_last = "off"

\* no preview is followed for its cache prompt
PreviewOff ==
    /\ cropped = <<>>
    /\ r_roi = <<>>
    /\ r_image = "None"
    /\ r_tasks = <<>>
    /\ r_tab = "None"
    /\ r_params = "None"
    /\ r_pc = "off"
    /\ r_modified = FALSE
    /\ r_asked = FALSE

\* no call of _run is in progress
SsocrOff ==
    /\ s_in = [found |-> FALSE, stdout |-> <<>>, stderr |-> <<>>, debug |-> FALSE]
    /\ s_pc = "off"
    /\ s_out = [kind |-> "None"]

InitQueue == QueueInit /\ ProcessOff /\ UtilsOff /\ GeometryOff /\ GuiOff /\ ConfigureOff
    /\ PreviewOff /\ SsocrOff

\* apply_ocr, lines 232-237: the algorithm of the selected tab is not available
ApplyOcrUnavailable ==
    /\ ppc = "idle"
    /\ ocr_text' = ""
    /\ UNCHANGED <<pvars, rvars, svars, uvars, gvars, zvars, cvars>>
    /\ UNCHANGED <<superseded, queue, ppc, pend, wpc, cur, text, signals, led, ask_cache,
                   reqs, calls, inflight, emitted, discarded, raised, burst,
                   timedout, cached>>

\* apply_ocr, lines 232-249: read the widgets, choose function and image
ApplyOcrBegin ==
    /\ ppc = "idle"
    /\ Len(reqs) < MaxTriggers
    /\ \E image \in Images, algorithm \in Algorithms, parameters \in Parameters :
          /\ <<image, algorithm, parameters>> \in WidgetStates
          /\ pend' = RequestItem(image, algorithm, parameters, Len(reqs) + 1)
          /\ reqs' = Append(reqs, [image |-> image, algorithm |-> algorithm,
                                   parameters |-> parameters])
    /\ ppc' = "empty"
    /\ UNCHANGED <<pvars, rvars, svars, uvars, gvars, zvars, cvars>>
    /\ UNCHANGED <<superseded, queue, wpc, cur, text, signals, ocr_text, led, ask_cache,
                   calls, inflight, emitted, discarded, raised, burst,
                   timedout, cached>>

\* apply_ocr, line 255: "while not self.queue.empty()"
DrainEmpty ==
    /\ ppc = "empty"
    /\ ppc' = IF QueueEmpty(queue) THEN "put" ELSE "get"
    /\ UNCHANGED <<pvars, rvars, svars, uvars, gvars, zvars, cvars>>
    /\ UNCHANGED <<superseded, queue, pend, wpc, cur, text, signals, ocr_text, led,
                   ask_cache, reqs, calls, inflight, emitted, discarded,
                   raised, burst, timedout, cached, superseded>>

\* apply_ocr, line 256: self.queue.get() blocks while the queue is empty
DrainGet ==
    /\ ppc = "get"
    /\ queue # <<>>
    /\ queue' = Tail(queue)
    /\ discarded' = discarded \cup {Head(queue).id}
    /\ ppc' = "empty"
    /\ UNCHANGED <<pvars, rvars, svars, uvars, gvars, zvars, cvars>>
    /\ UNCHANGED <<superseded, pend, wpc, cur, text, signals, ocr_text, led, ask_cache,
                   reqs, calls, inflight, emitted, raised, burst, timedout,
                   cached>>

\* apply_ocr, lines 257-259
PutRequest ==
    /\ ppc = "put"
    /\ led' = TRUE
    /\ queue' = Append(queue, pend)
    /\ ask_cache' = TRUE
    /\ burst' = Append(burst, pend.id)
    /\ superseded' = superseded \cup (PutIds \ CallIds)
    /\ ppc' = "idle"
    /\ UNCHANGED <<pvars, rvars, svars, uvars, gvars, zvars, cvars>>
    /\ UNCHANGED <<pend, wpc, cur, text, signals, ocr_text, reqs, calls,
                   inflight, emitted, discarded, raised, timedout, cached>>

\* on_update_text, lines 261-264: the slot runs in the GUI thread's event loop
OnUpdateText ==
    /\ ppc \in {"idle", "closed"}
    /\ signals # <<>>
    /\ ocr_text' = Head(signals)
    /\ led' = FALSE
    /\ signals' = Tail(signals)
    /\ UNCHANGED <<pvars, rvars, svars, uvars, gvars, zvars, cvars>>
    /\ UNCHANGED <<superseded, queue, ppc, pend, wpc, cur, text, ask_cache, reqs, calls,
                   inflight, emitted, discarded, raised, burst, timedout,
                   cached>>

\* cache, lines 172-175
Cache ==
    /\ ppc = "idle"
    /\ cached' = TRUE
    /\ ask_cache' = FALSE
    /\ UNCHANGED <<pvars, rvars, svars, uvars, gvars, zvars, cvars>>
    /\ UNCHANGED <<superseded, queue, ppc, pend, wpc, cur, text, signals, ocr_text, led,
                   reqs, calls, inflight, emitted, discarded, raised, burst,
                   timedout>>

\* closeEvent, lines 177-187: the prompt, then the sentinel is put
CloseEvent ==
    /\ ppc = "idle"
    /\ \E yes \in BOOLEAN :
          IF ask_cache /\ yes
          THEN cached' = TRUE /\ ask_cache' = FALSE
          ELSE UNCHANGED <<cached, ask_cache>>
    /\ queue' = Append(queue, Sentinel)
    /\ ppc' = "stop"
    /\ UNCHANGED <<pvars, rvars, svars, uvars, gvars, zvars, cvars>>
    /\ UNCHANGED <<superseded, pend, wpc, cur, text, signals, ocr_text, led, reqs, calls,
                   inflight, emitted, discarded, raised, burst, timedout>>

\* closeEvent, line 188: ocr_thread.stop(10000) returns when the worker left
\* process() ...
StopExit ==
    /\ ppc = "stop"
    /\ wpc \in {"done", "crashed"}
    /\ ppc' = "closed"
    /\ UNCHANGED <<pvars, rvars, svars, uvars, gvars, zvars, cvars>>
    /\ UNCHANGED <<superseded, queue, pend, wpc, cur, text, signals, ocr_text, led,
                   ask_cache, reqs, calls, inflight, emitted, discarded,
                   raised, burst, timedout, cached, superseded>>

\* ... or when the 10000 ms have elapsed
StopTimeout ==
    /\ ppc = "stop"
    /\ wpc \notin {"done", "crashed"}
    /\ ppc' = "closed"
    /\ timedout' = TRUE
    /\ UNCHANGED <<pvars, rvars, svars, uvars, gvars, zvars, cvars>>
    /\ UNCHANGED <<superseded, queue, pend, wpc, cur, text, signals, ocr_text, led,
                   ask_cache, reqs, calls, inflight, emitted, discarded,
                   raised, burst, cached>>

\* OCRWorker.process, lines 51-53 (and the call of line 56 begins)
WorkerGet ==
    /\ WorkerReady
    /\ queue # <<>>
    /\ queue' = Tail(queue)
    /\ burst' = <<>>
    /\ IF IsSentinel(Head(queue))
       THEN /\ wpc' = "done"
            /\ UNCHANGED <<cur, calls, inflight>>
       ELSE /\ wpc' = "call"
            /\ cur' = Head(queue)
            /\ calls' = Append(calls, Head(queue))
            /\ inflight' = inflight \cup {Head(queue).id}
    /\ UNCHANGED <<pvars, rvars, svars, uvars, gvars, zvars, cvars>>
    /\ UNCHANGED <<superseded, ppc, pend, text, signals, ocr_text, led, ask_cache, reqs,
                   emitted, discarded, raised, timedout, cached>>

\* lines 56-58: the backend returns (text, image)
BackendReturn ==
    /\ wpc = "call"
    /\ cur.function # "None"
    /\ \E t \in Texts : text' = t
    /\ inflight' = inflight \ {cur.id}
    /\ wpc' = "emit"
    /\ UNCHANGED <<pvars, rvars, svars, uvars, gvars, zvars, cvars>>
    /\ UNCHANGED <<superseded, queue, ppc, pend, cur, signals, ocr_text, led, ask_cache,
                   reqs, calls, emitted, discarded, raised, burst, timedout,
                   cached>>

\* lines 59-62: the backend raises (calling None raises TypeError)
BackendRaise ==
    /\ wpc = "call"
    /\ inflight' = inflight \ {cur.id}
    /\ \E e \in Raisable :
          IF Caught(e)
          THEN /\ text' = ""
               /\ raised' = raised \cup {cur.id}
               /\ wpc' = "emit"
          ELSE /\ wpc' = "crashed"
               /\ UNCHANGED <<text, raised>>
    /\ UNCHANGED <<pvars, rvars, svars, uvars, gvars, zvars, cvars>>
    /\ UNCHANGED <<superseded, queue, ppc, pend, cur, signals, ocr_text, led, ask_cache,
                   reqs, calls, emitted, discarded, burst, timedout, cached>>

\* line 63: sig_ocr_text.emit(text), queued for the GUI thread
WorkerEmit ==
    /\ wpc = "emit"
    /\ signals' = Append(signals, text)
    /\ emitted' = Append(emitted, [id |-> cur.id, text |-> text])
    /\ wpc' = "get"
    /\ UNCHANGED <<pvars, rvars, svars, uvars, gvars, zvars, cvars>>
    /\ UNCHANGED <<superseded, queue, ppc, pend, cur, text, ocr_text, led, ask_cache,
                   reqs, calls, inflight, discarded, raised, burst, timedout,
                   cached>>

WorkerStep == WorkerGet \/ BackendReturn \/ BackendRaise \/ WorkerEmit

NextQueue ==
    \/ ApplyOcrUnavailable
    \/ ApplyOcrBegin
    \/ DrainEmpty
    \/ DrainGet
    \/ PutRequest
    \/ OnUpdateText
    \/ Cache
    \/ CloseEvent
    \/ StopExit
    \/ StopTimeout
    \/ WorkerGet
    \/ BackendReturn
    \/ BackendRaise
    \/ WorkerEmit

SpecQueue == InitQueue /\ [][NextQueue]_vars

\* Both threads are scheduled (a running apply_ocr goes on, the worker goes
\* on), the backend call ends, and the 10 s of ocr_thread.stop elapse.
FairSpecQueue ==
    /\ SpecQueue
    /\ WF_vars(DrainEmpty)
    /\ WF_vars(DrainGet)
    /\ WF_vars(PutRequest)
    /\ WF_vars(WorkerGet)
    /\ WF_vars(BackendReturn \/ BackendRaise)
    /\ WF_vars(WorkerEmit)
    /\ WF_vars(StopExit \/ StopTimeout)

----------------------------------------------------------------------------
(* Images and operations: ocr/utils.py.  An image is an OpenCVImage with    *)
(* one channel: its ext attribute and its rows of 8-bit pixels.             *)

Min(a, b) == IF a < b THEN a ELSE b
Max(a, b) == IF a > b THEN a ELSE b
SetMax(S) == CHOOSE m \in S : \A x \in S : x <= m
SetMin(S) == CHOOSE m \in S : \A x \in S : m <= x

Height(im) == Len(im.px)
Width(im) == IF Len(im.px) = 0 THEN 0 ELSE Len(im.px[1])
IsEmptyImage(im) == Height(im) = 0 \/ Width(im) = 0

\* OpenCVImage(out, ext=image.ext)
OpenCVImage(px, ext) == [ext |-> ext, px |-> px]

\* threshold: cv2.threshold(image, value, 255, cv2.THRESH_BINARY)
threshold(image, value) ==
    OpenCVImage([r \in 1..Height(image) |-> [c \in 1..Width(image) |->
                    IF image.px[r][c] > value THEN 255 ELSE 0]], image.ext)

\* the negation -image of uint8 instead of its complement
invertNegates(image) ==
    OpenCVImage([r \in 1..Height(image) |-> [c \in 1..Width(image) |->
                    (256 - image.px[r][c]) % 256]], image.ext)

\* invert: ~image on uint8
invert(image) ==
    OpenCVImage([r \in 1..Height(image) |-> [c \in 1..Width(image) |->
                    255 - image.px[r][c]]], image.ext)

\* greyscale: "if image.ndim == 2: return image"
greyscale(image) == image

\* to_cv2: "if isinstance(obj, OpenCVImage): return obj"
to_cv2(obj) == obj

\* a Python slice bound i on an axis of length n
SliceIndex(i, n) == IF i < 0 THEN Max(i + n, 0) ELSE Min(i, n)

\* crop with integer arguments: image[y:y+h, x:x+w]
crop(image, x, y, w, h) ==
    LET r0 == SliceIndex(y, Height(image))
        r1 == SliceIndex(y + h, Height(image))
        c0 == SliceIndex(x, Width(image))
        c1 == SliceIndex(x + w, Width(image))
    IN  OpenCVImage([r \in 1..(r1 - r0) |-> [c \in 1..(c1 - c0) |->
                        image.px[r0 + r][c0 + c]]], image.ext)

\* the pixels of the (2*radius+1)-square window round (r, c) that lie in the
\* image: cv2.dilate / cv2.erode leave the pixels outside the image out
Window(image, r, c, radius) ==
    {image.px[a][b] : a \in Max(1, r - radius)..Min(Height(image), r + radius),
                      b \in Max(1, c - radius)..Min(Width(image), c + radius)}

RECURSIVE DilateTimes(_, _, _)
DilateTimes(image, radius, iterations) ==
    IF iterations = 0 THEN image
    ELSE LET prev == DilateTimes(image, radius, iterations - 1)
         IN  OpenCVImage([r \in 1..Height(prev) |-> [c \in 1..Width(prev) |->
                             SetMax(Window(prev, r, c, radius))]], prev.ext)

RECURSIVE ErodeTimes(_, _, _)
ErodeTimes(image, radius, iterations) ==
    IF iterations = 0 THEN image
    ELSE LET prev == ErodeTimes(image, radius, iterations - 1)
         IN  OpenCVImage([r \in 1..Height(prev) |-> [c \in 1..Width(prev) |->
                             SetMin(Window(prev, r, c, radius))]], prev.ext)

dilate(image, radius, iterations) ==
    IF radius < 1 \/ iterations < 1 THEN image
    ELSE DilateTimes(image, radius, iterations)

erode(image, radius, iterations) ==
    IF radius < 1 \/ iterations < 1 THEN image
    ELSE ErodeTimes(image, radius, iterations)

\* rotate for the quarter turns.  With (cx, cy) = (w/2, h/2) the adjusted
\* matrix maps the source pixel (x, y) to (y, w - x) for 90 degrees, to
\* (w - x, h - y) for 180 and to (h - y, x) for 270; warpAffine fills what no
\* source pixel reaches with 0.
rotate(image, angle) ==
    LET a == IF angle < 0 THEN angle + 360 ELSE angle
        h == Height(image)
        w == Width(image)
    IN  CASE angle = 0 -> image
          [] a = 90 ->
               OpenCVImage([r \in 1..w |-> [c \in 1..h |->
                   IF r = 1 THEN 0 ELSE image.px[c][w - r + 2]]], image.ext)
          [] a = 180 ->
               OpenCVImage([r \in 1..h |-> [c \in 1..w |->
                   IF r = 1 \/ c = 1 THEN 0 ELSE image.px[h - r + 2][w - c + 2]]],
                   image.ext)
          [] a = 270 ->
               OpenCVImage([r \in 1..w |-> [c \in 1..h |->
                   IF c = 1 THEN 0 ELSE image.px[h - c + 2][r]]], image.ext)

\* the names getattr(utils, name) finds: the functions, classes, constants
\* and imports of the module ocr.utils
UtilsAttrs ==
    {"adaptive_threshold", "crop", "dilate", "erode", "gaussian_blur",
     "greyscale", "invert", "rotate", "save", "threshold", "to_base64",
     "to_bytes", "to_cv2", "to_pil", "get_executable_path", "OpenCVImage",
     "DEFAULT_IMAGE_FORMAT", "DEFAULT_FILE_EXTENSION", "SIGNATURE_MAP",
     "logger", "os", "sys", "base64", "logging", "BytesIO", "cv2", "np",
     "Image", "ImageFilter", "ImageOps", "PillowImage", "to_qcolor",
     "__all__", "__builtins__", "__cached__", "__doc__", "__file__",
     "__loader__", "__name__", "__package__", "__spec__"}

NoDefaults == [p \in {} |-> 0]

\* the parameters after the image: positional ones in order, and defaults
Signature(name) ==
    CASE name = "crop"      -> [pos |-> <<"x", "y", "w", "h">>, def |-> NoDefaults]
      [] name = "rotate"    -> [pos |-> <<"angle">>, def |-> NoDefaults]
      [] name = "threshold" -> [pos |-> <<"value">>, def |-> NoDefaults]
      [] name = "dilate"    -> [pos |-> <<"radius", "iterations">>,
                                def |-> [p \in {"iterations"} |-> 1]]
      [] name = "erode"     -> [pos |-> <<"radius", "iterations">>,
                                def |-> [p \in {"iterations"} |-> 1]]
      [] name = "greyscale" -> [pos |-> <<>>, def |-> NoDefaults]
      [] name = "invert"    -> [pos |-> <<>>, def |-> NoDefaults]
      [] name = "to_cv2"    -> [pos |-> <<>>, def |-> NoDefaults]

\* a binding that never fails: surplus arguments are dropped and a missing
\* parameter is 0
BindLenient(sig, posargs, kwargs) ==
    LET names == {sig.pos[j] : j \in 1..Len(sig.pos)}
        ValueOf(p) ==
            LET j == CHOOSE i \in 1..Len(sig.pos) : sig.pos[i] = p
            IN  IF j <= Len(posargs) THEN posargs[j]
                ELSE IF \E k \in 1..Len(kwargs) : kwargs[k][1] = p
                THEN kwargs[CHOOSE k \in 1..Len(kwargs) : kwargs[k][1] = p][2]
                ELSE IF p \in DOMAIN sig.def THEN sig.def[p]
                ELSE 0
    IN  [ok |-> TRUE, args |-> [p \in names |-> ValueOf(p)]]

\* obj(image, *posargs, **kwargs): Python's binding of arguments to parameters
Bind(sig, posargs, kwargs) ==
    LET names   == {sig.pos[j] : j \in 1..Len(sig.pos)}
        kwnames == {kwargs[k][1] : k \in 1..Len(kwargs)}
        bypos   == {sig.pos[j] : j \in 1..Min(Len(posargs), Len(sig.pos))}
        given   == bypos \cup kwnames
        ValueOf(p) ==
            IF p \in bypos
            THEN posargs[CHOOSE j \in 1..Len(sig.pos) : sig.pos[j] = p]
            ELSE IF p \in kwnames
            THEN kwargs[CHOOSE k \in 1..Len(kwargs) : kwargs[k][1] = p][2]
            ELSE sig.def[p]
        ok == /\ Len(posargs) <= Len(sig.pos)
              /\ kwnames \subseteq names
              /\ kwnames \cap bypos = {}
              /\ \A p \in names : p \in given \/ p \in DOMAIN sig.def
    IN  [ok |-> ok, args |-> IF ok THEN [p \in names |-> ValueOf(p)] ELSE NoDefaults]

\* the cv2 functions reject an image without pixels
OpRaises(name, image) ==
    IsEmptyImage(image) /\ name \in {"threshold", "dilate", "erode", "rotate"}

ApplyOp(name, image, args) ==
    CASE name = "crop"      -> crop(image, args["x"], args["y"], args["w"], args["h"])
      [] name = "rotate"    -> rotate(image, args["angle"])
      [] name = "threshold" -> threshold(image, args["value"])
      [] name = "dilate"    -> dilate(image, args["radius"], args["iterations"])
      [] name = "erode"     -> erode(image, args["radius"], args["iterations"])
      [] name = "greyscale" -> greyscale(image)
      [] name = "invert"    -> invert(image)
      [] name = "to_cv2"    -> to_cv2(image)

----------------------------------------------------------------------------
(* process: ocr/__init__.py *)

\* the shapes of a task's value
NoneValue == [shape |-> "none", pos |-> <<>>, kw |-> <<>>]
Scalar(v) == [shape |-> "scalar", pos |-> <<v>>, kw |-> <<>>]
Tuple(s) == [shape |-> "seq", pos |-> s, kw |-> <<>>]
Dict(kw) == [shape |-> "map", pos |-> <<>>, kw |-> kw]

\* a task item: a sequence of n elements, the first is name, the second value
Item1(name) == [n |-> 1, name |-> name, value |-> NoneValue]
Item2(name, value) == [n |-> 2, name |-> name, value |-> value]
Item3(name) == [n |-> 3, name |-> name, value |-> NoneValue]

\* line 236
TransformOnlyWithThreshold == {"crop", "rotate", "threshold"}
transform_only_tasks == {"crop", "rotate"}

\* line 246: getattr(utils, name)
ResolvesRegistered(name) ==
    name \in {"crop", "rotate", "threshold", "dilate", "erode", "gaussian_blur",
              "greyscale", "invert", "adaptive_threshold", "zoom"}
Resolves(name) == name \in UtilsAttrs

\* lines 247-254: the arguments passed after the image
CallArgsDictByPosition(value) ==
    CASE value.shape = "seq"  -> [pos |-> value.pos, kw |-> <<>>]
      [] value.shape = "map"  ->
            [pos |-> [k \in 1..Len(value.kw) |-> value.kw[k][2]], kw |-> <<>>]
      [] value.shape = "none" -> [pos |-> <<>>, kw |-> <<>>]
      [] OTHER                -> [pos |-> value.pos, kw |-> <<>>]
CallArgs(value) ==
    CASE value.shape = "seq"  -> [pos |-> value.pos, kw |-> <<>>]
      [] value.shape = "map"  -> [pos |-> <<>>, kw |-> value.kw]
      [] value.shape = "none" -> [pos |-> <<>>, kw |-> <<>>]
      [] OTHER                -> [pos |-> value.pos, kw |-> <<>>]

\* lines 228-234: the items iterated over
DictItems(tasks) ==
    [k \in 1..Len(tasks.keys) |-> Item2(tasks.keys[k], tasks.val[tasks.keys[k]])]
RECURSIVE Dedup(_)
Dedup(items) ==
    IF items = <<>> THEN <<>>
    ELSE LET front == Dedup(SubSeq(items, 1, Len(items) - 1))
             last  == items[Len(items)]
         IN  IF \E k \in 1..Len(front) : front[k] = last THEN front
             ELSE Append(front, last)
TaskItemsDedup(tasks) ==
    IF tasks.kind \in {"dict", "OrderedDict"} THEN DictItems(tasks)
    ELSE Dedup(tasks.items)
TaskItems(tasks) ==
    IF tasks.kind \in {"dict", "OrderedDict"} THEN DictItems(tasks)
    ELSE tasks.items

\* lines 237-254: one iteration of the for loop, from the state
\* st = [pc, err, image, calls] of the call
StepItem(st, item, transform_only) ==
    LET name  == item.name
        value == IF item.n = 1 THEN NoneValue ELSE item.value
        a     == CallArgs(value)
        b     == Bind(Signature(name), a.pos, a.kw)
        Raise(e) == [st EXCEPT !.pc = "raised", !.err = e]
    IN  IF item.n # 1 /\ item.n # 2 THEN Raise("ValueError")
        ELSE IF transform_only /\ name \notin transform_only_tasks THEN st
        ELSE IF ~Resolves(name) THEN Raise("AttributeError")
        ELSE IF ~b.ok THEN Raise("TypeError")
        ELSE IF OpRaises(name, st.image) THEN Raise("cv2.error")
        ELSE [st EXCEPT !.image = ApplyOp(name, st.image, b.args),
                        !.calls = Append(st.calls,
                                         [name |-> name, pos |-> a.pos,
                                          kw |-> a.kw, args |-> b.args])]

\* the for loop from item k on
RECURSIVE RunItems(_, _, _, _)
RunItems(st, items, k, transform_only) ==
    IF st.pc = "raised" THEN st
    ELSE IF k > Len(items) THEN [st EXCEPT !.pc = "returned"]
    ELSE RunItems(StepItem(st, items[k], transform_only), items, k + 1,
                  transform_only)

\* process(image, tasks=items, transform_only=...) for a non-empty list
ProcessList(image, items, transform_only) ==
    RunItems([pc |-> "loop", err |-> "", image |-> image, calls |-> <<>>],
             items, 1, transform_only)

\* "if not tasks"
Falsy(tasks) ==
    \/ tasks.kind = "None"
    \/ tasks.kind = "list" /\ tasks.items = <<>>
    \/ tasks.kind \in {"dict", "OrderedDict"} /\ tasks.keys = <<>>

\* ---- the inputs of the model ----
InputImages ==
    {[ext |-> ".png",  px |-> <<<<0, 120, 255>>, <<200, 50, 100>>>>],
     [ext |-> ".jpeg", px |-> <<<<10, 90>>, <<130, 250>>, <<60, 101>>>>]}

CropTuple == Tuple(<<0, 0, 2, 1>>)
CropDict == Dict(<<<<"x", 0>>, <<"y", 0>>, <<"w", 2>>, <<"h", 1>>>>)
DilateTuple == Tuple(<<1, 2>>)
DilateDict == Dict(<<<<"iterations", 2>>, <<"radius", 1>>>>)

ListItemPool ==
    {Item2("crop", CropTuple), Item2("rotate", Scalar(90)),
     Item2("threshold", Scalar(100)), Item1("invert"),
     Item2("dilate", DilateTuple), Item2("dilate", DilateDict),
     Item2("dilate", Scalar(1)), Item2("invalid", Scalar(2)),
     Item2("zoom", CropTuple), Item1("to_cv2"), Item1("rotate"),
     Item3("threshold"), Item2("invert", Scalar(1))}

DictValues ==
    [k \in {"crop", "threshold", "rotate", "dilate", "invert"} |->
        CASE k = "crop"      -> CropDict
          [] k = "threshold" -> Scalar(100)
          [] k = "rotate"    -> Dict(<<<<"angle", 270>>>>)
          [] k = "dilate"    -> DilateDict
          [] k = "invert"    -> NoneValue]

SeqsUpTo(S, n) == UNION {[1..m -> S] : m \in 0..n}

TaskInputs ==
    {[kind |-> "None", items |-> <<>>, keys |-> <<>>, val |-> <<>>]}
    \cup {[kind |-> "list", items |-> s, keys |-> <<>>, val |-> <<>>] :
            s \in SeqsUpTo(ListItemPool, MaxTasks)}
    \cup {[kind |-> kd, items |-> <<>>, keys |-> ks,
           val |-> [k \in {ks[j] : j \in 1..Len(ks)} |-> DictValues[k]]] :
            kd \in {"dict", "OrderedDict"},
            ks \in {s \in SeqsUpTo(DOMAIN DictValues, MaxTasks) :
                       \A i, j \in 1..Len(s) : s[i] = s[j] => i = j}}

ProcessInit ==
    /\ p_in \in InputImages
    /\ p_tasks \in TaskInputs
    /\ p_transform_only \in BOOLEAN
    /\ p_lt36 \in BOOLEAN
    /\ p_lt36 => p_tasks.kind \in {"dict", "OrderedDict"}
    /\ p_pc = "start"
    /\ p_i = 0
    /\ p_image = p_in
    /\ p_err = ""
    /\ p_calls = <<>>

InitProcess == ProcessInit /\ QueueInit /\ UtilsOff /\ GeometryOff /\ GuiOff /\ ConfigureOff
    /\ PreviewOff /\ SsocrOff

\* lines 223-234
ProcessEnter ==
    /\ p_pc = "start"
    /\ IF Falsy(p_tasks)
       THEN p_pc' = "returned" /\ p_i' = p_i /\ p_err' = p_err
       ELSE IF p_tasks.kind = "dict" /\ p_lt36
       THEN p_pc' = "raised" /\ p_err' = "TypeError" /\ p_i' = p_i
       ELSE p_pc' = "loop" /\ p_i' = 1 /\ p_err' = p_err
    /\ UNCHANGED <<p_in, p_tasks, p_transform_only, p_lt36, p_image, p_calls>>
    /\ UNCHANGED <<qvars, uvars, rvars, svars, gvars, zvars, cvars>>

\* lines 237-254: one iteration
ProcessItem ==
    /\ p_pc = "loop"
    /\ p_i <= Len(TaskItems(p_tasks))
    /\ LET st == StepItem([pc |-> "loop", err |-> "", image |-> p_image,
                           calls |-> p_calls],
                          TaskItems(p_tasks)[p_i], p_transform_only)
       IN  /\ p_pc' = st.pc
           /\ p_err' = st.err
           /\ p_image' = st.image
           /\ p_calls' = st.calls
           /\ p_i' = IF st.pc = "raised" THEN p_i ELSE p_i + 1
    /\ UNCHANGED <<p_in, p_tasks, p_transform_only, p_lt36>>
    /\ UNCHANGED <<qvars, uvars, rvars, svars, gvars, zvars, cvars>>

\* line 256
ProcessReturn ==
    /\ p_pc = "loop"
    /\ p_i > Len(TaskItems(p_tasks))
    /\ p_pc' = "returned"
    /\ UNCHANGED <<p_in, p_tasks, p_transform_only, p_lt36, p_i, p_image,
                   p_err, p_calls>>
    /\ UNCHANGED <<qvars, uvars, rvars, svars, gvars, zvars, cvars>>

NextProcess == ProcessEnter \/ ProcessItem \/ ProcessReturn

SpecProcess == InitProcess /\ [][NextProcess]_vars

----------------------------------------------------------------------------
(* The functions of ocr/utils.py over every representation of an image *)

\* The Python values the functions branch on: None, an int, a float.  The
\* float PyFloat(n, d) is the double that n / d evaluates to.
PyNone == [t |-> "None", n |-> 0, d |-> 1]
PyInt(n) == [t |-> "int", n |-> n, d |-> 1]
PyFloat(n, d) == [t |-> "float", n |-> n, d |-> d]

DEFAULT_IMAGE_FORMAT == "jpeg"
DEFAULT_FILE_EXTENSION == ".jpeg"

\* in the order of the dict: <<key, the bytes a file of that kind starts with>>
SIGNATURE_MAP ==
    <<<<"bmp", "BM">>, <<"dib", "BM">>, <<"jpg", "FFD8FF">>, <<"jpeg", "FFD8FF">>,
      <<"jpe", "FFD8FF">>, <<"png", "89PNG">>, <<"tif", "II*">>, <<"tiff", "II*">>>>

\* The content of a file, of a bytes-like object or of a decoded Base64
\* string: an image of the given mode and pixels written by a codec, magic
\* being the bytes it starts with; bytes that are no image; or no bytes at
\* all (no such file, not Base64).  A pixel is the tuple of its band values;
\* the pixels of a file are in the order red, green, blue.
EncodedImage(codec, magic, mode, px) ==
    [codec |-> codec, magic |-> magic, mode |-> mode, px |-> px]
NotAnImage == [codec |-> "none", magic |-> "??", mode |-> "", px |-> <<>>]
NoBytes == [codec |-> "absent", magic |-> "", mode |-> "", px |-> <<>>]

Codecs == {"PNG", "BMP", "TIFF", "JPEG"}

\* A Python object given to or returned by the functions.  id is the identity
\* of the instance ("is"); tag is OpenCVImage.ext or Image.format ("None" for
\* None); mode is the Pillow mode, and for an array "L" for ndim 2 and "RGB"
\* for ndim 3; for a str, file is the content of the file it is the path of,
\* ext the extension os.path.splitext gives, b64 what base64.b64decode makes
\* of it and strict whether it is written in the Base64 alphabet only.
NewObject(type, id, tag, mode, px, file, ext, b64, strict) ==
    [type |-> type, id |-> id, tag |-> tag, mode |-> mode, px |-> px,
     file |-> file, ext |-> ext, b64 |-> b64, strict |-> strict]

\* OpenCVImage.__new__: "obj.ext = ext or DEFAULT_FILE_EXTENSION"
NewOpenCVImage(px, mode, ext, id) ==
    NewObject("OpenCVImage", id,
              IF ext \in {"None", ""} THEN DEFAULT_FILE_EXTENSION ELSE ext,
              mode, px, NoBytes, "", NoBytes, FALSE)

NewPillowImage(px, mode, format, id) ==
    NewObject("PillowImage", id, format, mode, px, NoBytes, "", NoBytes, FALSE)

NewNdarray(px, mode, id) ==
    NewObject("ndarray", id, "None", mode, px, NoBytes, "", NoBytes, FALSE)

\* bytes, bytearray, BytesIO, memoryview
NewBytesLike(type, file, id) ==
    NewObject(type, id, "None", "", <<>>, file, "", NoBytes, FALSE)

NewStr(file, ext, b64, strict, id) ==
    NewObject("str", id, "None", "", <<>>, file, ext, b64, strict)

BytesLike == {"bytes", "bytearray", "BytesIO", "memoryview"}

\* what a function call does: it returns a value or raises an exception
Returns(v) == [err |-> "", val |-> v]
Raises(e, v) == [err |-> e, val |-> v]

\* the identity of an instance created while obj is alive
Fresh(obj) == obj.id + 1

NBands(mode) == IF mode = "RGB" THEN 3 ELSE 1

\* one band of a pixel matrix, as a single-channel image
Band(px, b) ==
    OpenCVImage([r \in 1..Len(px) |-> [c \in 1..Len(px[r]) |-> px[r][c][b]]], "")

\* the pixel matrix whose bands are the single-channel matrices out[1], ...
MergeBands(out) ==
    [r \in 1..Len(out[1]) |-> [c \in 1..Len(out[1][r]) |->
        [b \in 1..Len(out) |-> out[b][r][c]]]]

\* cv2.COLOR_RGB2BGR / cv2.COLOR_BGR2RGB on a 3-channel array
SwapRB(px) ==
    [r \in 1..Len(px) |-> [c \in 1..Len(px[r]) |->
        <<px[r][c][3], px[r][c][2], px[r][c][1]>>]]

\* the colour an index of a palette image stands for
PaletteColour(i) == <<i, 255 - i, (2 * i) % 256>>

ExpandPalette(px) ==
    [r \in 1..Len(px) |-> [c \in 1..Len(px[r]) |-> PaletteColour(px[r][c][1])]]

\* what a JPEG codec keeps of a band value
Lossy(px) ==
    [r \in 1..Len(px) |-> [c \in 1..Len(px[r]) |->
        [b \in 1..Len(px[r][c]) |-> (px[r][c][b] \div 16) * 16 + 8]]]

\* ext[1:].upper() (to_pil) and '.' + format (to_cv2) on the tags of the model
Upper(ext) ==
    CASE ext \in {".png", ".PNG"}   -> "PNG"
      [] ext \in {".bmp", ".BMP"}   -> "BMP"
      [] ext \in {".dib", ".DIB"}   -> "DIB"
      [] ext \in {".tif", ".TIF"}   -> "TIF"
      [] ext \in {".tiff", ".TIFF"} -> "TIFF"
      [] ext \in {".jpg", ".JPG"}   -> "JPG"
      [] ext \in {".jpeg", ".JPEG"} -> "JPEG"
      [] ext \in {".jpe", ".JPE"}   -> "JPE"
      [] ext = ".dat"               -> "DAT"

\* '.' + s for a format (to_cv2) or a key of SIGNATURE_MAP
Dot(s) ==
    CASE s = "PNG"  -> ".PNG"   [] s = "png"  -> ".png"
      [] s = "BMP"  -> ".BMP"   [] s = "bmp"  -> ".bmp"
      [] s = "DIB"  -> ".DIB"   [] s = "dib"  -> ".dib"
      [] s = "TIF"  -> ".TIF"   [] s = "tif"  -> ".tif"
      [] s = "TIFF" -> ".TIFF"  [] s = "tiff" -> ".tiff"
      [] s = "JPG"  -> ".JPG"   [] s = "jpg"  -> ".jpg"
      [] s = "JPEG" -> ".JPEG"  [] s = "jpeg" -> ".jpeg"
      [] s = "JPE"  -> ".JPE"   [] s = "jpe"  -> ".jpe"
      [] s = "DAT"  -> ".DAT"

\* the family of image formats a tag names, whatever its case and spelling
Family(tag) ==
    CASE tag \in {".png", ".PNG", "PNG"} -> "png"
      [] tag \in {".bmp", ".BMP", "BMP", ".dib", ".DIB", "DIB"} -> "bmp"
      [] tag \in {".tif", ".TIF", "TIF", ".tiff", ".TIFF", "TIFF"} -> "tiff"
      [] tag \in {".jpg", ".JPG", "JPG", ".jpeg", ".JPEG", "JPEG", ".jpe",
                  ".JPE", "JPE"} -> "jpeg"
      [] OTHER -> "none"

\* the codec cv2.imencode / cv2.imwrite finds for an extension (the
\* comparison ignores the case), "none" if there is none
EncoderOf(ext) ==
    CASE Family(ext) = "png"  -> "PNG"
      [] Family(ext) = "bmp"  -> "BMP"
      [] Family(ext) = "tiff" -> "TIFF"
      [] Family(ext) = "jpeg" -> "JPEG"
      [] OTHER -> "none"

MagicOf(codec) ==
    CASE codec = "PNG"  -> "89PNG"
      [] codec = "BMP"  -> "BM"
      [] codec = "TIFF" -> "II*"
      [] codec = "JPEG" -> "FFD8FF"

\* cv2.imencode(ext, img) of a 2-D array or of a 3-channel array, which it
\* reads as blue, green, red
imencode(ext, px, mode) ==
    LET codec == EncoderOf(ext)
        rgb   == IF mode = "RGB" THEN SwapRB(px) ELSE px
    IN  EncodedImage(codec, MagicOf(codec), mode,
                     IF codec = "JPEG" THEN Lossy(rgb) ELSE rgb)

\* cv2.imdecode / cv2.imread with IMREAD_UNCHANGED: a 2-D array for a
\* greyscale file, a blue-green-red array for a colour or a palette file;
\* None for what is no image
imdecode(file) ==
    IF file.codec \notin Codecs THEN [none |-> TRUE, mode |-> "", px |-> <<>>]
    ELSE CASE file.mode = "L"   -> [none |-> FALSE, mode |-> "L", px |-> file.px]
           [] file.mode = "RGB" -> [none |-> FALSE, mode |-> "RGB", px |-> SwapRB(file.px)]
           [] file.mode = "P"   -> [none |-> FALSE, mode |-> "RGB",
                                    px |-> SwapRB(ExpandPalette(file.px))]

\* Image.save(fp, format) to a BytesIO
PillowSaveRaises(mode, format) ==
    CASE format = "None" -> "ValueError"
      [] format \notin {"PNG", "BMP", "DIB", "TIFF", "JPEG"} -> "KeyError"
      [] format = "JPEG" /\ mode = "P" -> "OSError"
      [] OTHER -> ""

PillowSave(px, mode, format) ==
    LET codec == IF format = "DIB" THEN "BMP" ELSE format
    IN  EncodedImage(codec, MagicOf(codec), mode,
                     IF codec = "JPEG" THEN Lossy(px) ELSE px)

\* Image.open of a file or a buffer: the image with the format of its codec
\* and the mode of the file; OSError for what is no image
PillowOpen(file, id) ==
    IF file.codec \notin Codecs THEN Raises("OSError", NoBytes)
    ELSE Returns(NewPillowImage(file.px, file.mode, file.codec, id))

\* lines 393-397: '.' + key of the first entry of SIGNATURE_MAP the buffer
\* starts with, None if there is none
Sniff(file) ==
    LET hits == {k \in 1..Len(SIGNATURE_MAP) : SIGNATURE_MAP[k][2] = file.magic}
    IN  IF hits = {} THEN "None"
        ELSE Dot(SIGNATURE_MAP[CHOOSE k \in hits : \A j \in hits : k <= j][1])

InvalidPathOrBase64 == "ValueError: Invalid path or Base64 string"

\* to_bytes, lines 222-266
ToBytes(obj) ==
    CASE obj.type = "str" ->
            IF obj.file # NoBytes
            THEN Returns(NewBytesLike("bytes", obj.file, Fresh(obj)))
            ELSE IF obj.b64 # NoBytes
            THEN Returns(NewBytesLike("bytes", obj.b64, Fresh(obj)))
            ELSE Raises(InvalidPathOrBase64, obj)
      [] obj.type = "OpenCVImage" ->
            \* cv2.cvtColor(obj, code=cv2.COLOR_RGB2BGR) takes 3 or 4 channels
            IF obj.mode # "RGB" \/ IsEmptyImage(obj) THEN Raises("cv2.error", obj)
            ELSE IF EncoderOf(obj.tag) = "none" THEN Raises("cv2.error", obj)
            ELSE Returns(NewBytesLike("bytes",
                                      imencode(obj.tag, SwapRB(obj.px), "RGB"),
                                      Fresh(obj)))
      [] obj.type = "PillowImage" ->
            IF PillowSaveRaises(obj.mode, obj.tag) # ""
            THEN Raises(PillowSaveRaises(obj.mode, obj.tag), obj)
            ELSE Returns(NewBytesLike("bytes", PillowSave(obj.px, obj.mode, obj.tag),
                                      Fresh(obj)))
      [] obj.type \in {"BytesIO", "memoryview", "bytearray"} ->
            Returns(NewBytesLike("bytes", obj.file, Fresh(obj)))
      [] obj.type = "bytes" -> Returns(obj)
      [] OTHER -> Raises("TypeError", obj)

\* to_base64, lines 282-284: the Base64 text of the bytes; it is the path of
\* no file
ToBase64(obj) ==
    LET b == ToBytes(obj)
    IN  IF b.err # "" THEN b
        ELSE Returns(NewStr(NoBytes, "", b.val.file, TRUE, Fresh(b.val)))

\* to_pil, lines 300-336
ToPil(obj) ==
    CASE obj.type = "OpenCVImage" ->
            LET fmt == Upper(obj.tag)
            IN  Returns(NewPillowImage(obj.px, obj.mode,
                                       IF fmt = "JPG" THEN "JPEG" ELSE fmt,
                                       Fresh(obj)))
      [] obj.type \in BytesLike -> PillowOpen(obj.file, Fresh(obj))
      [] obj.type = "str" ->
            IF PillowOpen(obj.file, Fresh(obj)).err = ""
            THEN PillowOpen(obj.file, Fresh(obj))
            ELSE IF obj.b64 = NoBytes THEN Raises(InvalidPathOrBase64, obj)
            ELSE PillowOpen(obj.b64, Fresh(obj))
      [] obj.type = "PillowImage" -> Returns(obj)
      [] OTHER -> Raises("TypeError", obj)

\* to_cv2, lines 380-404: the conversion of a buffer
BufferToCv2(file, id) ==
    LET image == imdecode(file)
    IN  IF image.none THEN Raises("AttributeError", NoBytes)
        ELSE Returns(NewOpenCVImage(
                 IF image.mode = "RGB" THEN SwapRB(image.px) ELSE image.px,
                 image.mode, Sniff(file), id))

\* to_cv2, lines 353-404
ToCv2(obj) ==
    CASE obj.type = "OpenCVImage" -> Returns(obj)
      [] obj.type \in {"PillowImage", "ndarray"} ->
            \* np.asarray of a palette image is the array of its indices
            Returns(NewOpenCVImage(obj.px,
                                   IF obj.mode = "RGB" THEN "RGB" ELSE "L",
                                   IF obj.type = "ndarray" \/ obj.tag = "None"
                                   THEN "None" ELSE Dot(obj.tag),
                                   Fresh(obj)))
      [] obj.type = "str" ->
            LET image == imdecode(obj.file)
            IN  IF ~image.none
                THEN Returns(NewOpenCVImage(
                         IF image.mode = "RGB" THEN SwapRB(image.px) ELSE image.px,
                         image.mode, obj.ext, Fresh(obj)))
                ELSE IF obj.b64 = NoBytes THEN Raises(InvalidPathOrBase64, obj)
                ELSE BufferToCv2(obj.b64, Fresh(obj))
      [] obj.type \in BytesLike -> BufferToCv2(obj.file, Fresh(obj))
      [] OTHER -> Raises("TypeError", obj)

\* ---- the arithmetic of "int(width * x)" (crop, lines 643-646) ----
\* A positive double is [bits, exp]: 53 binary digits, the first of them 1,
\* standing for the integer they spell times 2^exp; 0.0 has no digits.

\* 2^k modulo d, for d below 2^15
RECURSIVE Pow2Mod(_, _)
Pow2Mod(k, d) ==
    IF k = 0 THEN 1 % d
    ELSE IF k = 1 THEN 2 % d
    ELSE (Pow2Mod(k \div 2, d) * Pow2Mod(k - k \div 2, d)) % d

\* what is left of r / d after its first k binary digits after the point
\* (zero: the digits are exact), for 0 <= r < d
RemainderAfter(r, d, k) == (r * Pow2Mod(k, d)) % d

\* the first k binary digits after the point of r / d, for 0 <= r < d
Expansion(r, d, k) ==
    [j \in 1..k |-> IF 2 * RemainderAfter(r, d, j - 1) >= d THEN 1 ELSE 0]

\* the number of zeros after the point before the first 1, for 0 < r < d
RECURSIVE LeadingZeros(_, _)
LeadingZeros(r, d) == IF 2 * r >= d THEN 0 ELSE 1 + LeadingZeros(2 * r, d)

\* the digits of the number spelt by bits, plus one
PlusOne(bits) ==
    LET zeros == {j \in 1..Len(bits) : bits[j] = 0}
        last  == CHOOSE j \in zeros : \A i \in zeros : i <= j
    IN  IF zeros = {} THEN <<1>> \o [j \in 1..Len(bits) |-> 0]
        ELSE [j \in 1..Len(bits) |->
                 IF j < last THEN bits[j] ELSE IF j = last THEN 1 ELSE 0]

\* round to nearest, ties to even: the double nearest to the number spelt
\* by bits (53 digits or more) times 2^exp, plus a fraction of the last digit
\* if sticky
RoundTo53(bits, exp, sticky) ==
    LET drop  == Len(bits) - 53
        kept  == SubSeq(bits, 1, 53)
        guard == IF drop = 0 THEN 0 ELSE bits[54]
        rest  == sticky \/ \E j \in 55..Len(bits) : bits[j] = 1
        m     == IF guard = 1 /\ (rest \/ kept[53] = 1) THEN PlusOne(kept) ELSE kept
    IN  IF Len(m) = 54 THEN [bits |-> SubSeq(m, 1, 53), exp |-> exp + drop + 1]
        ELSE [bits |-> m, exp |-> exp + drop]

\* the double n / d evaluates to, for ints 0 <= n <= d
FloatDiv(n, d) ==
    IF n = 0 THEN [bits |-> <<>>, exp |-> 0]
    ELSE IF n = d THEN [bits |-> <<1>> \o [j \in 1..52 |-> 0], exp |-> -52]
    ELSE LET p == LeadingZeros(n, d) + 1
         IN  RoundTo53(SubSeq(Expansion(n, d, p + 53), p, p + 53), -(p + 53),
                       RemainderAfter(n, d, p + 53) # 0)

RECURSIVE IntToBits(_)
IntToBits(n) == IF n = 0 THEN <<>> ELSE IntToBits(n \div 2) \o <<n % 2>>

RECURSIVE BitsToInt(_)
BitsToInt(bits) ==
    IF bits = <<>> THEN 0
    ELSE 2 * BitsToInt(SubSeq(bits, 1, Len(bits) - 1)) + bits[Len(bits)]

\* binary digits are multiplied eleven at a time
LimbBits == 11
LimbBase == 2048

\* the digits of n, with zeros before them up to the length of a limb
PadLimb(n) ==
    [j \in 1..(LimbBits - Len(IntToBits(n))) |-> 0] \o IntToBits(n)

\* the digits without the zeros they start with
StripZeros(bits) ==
    LET ones == {j \in 1..Len(bits) : bits[j] = 1}
    IN  IF ones = {} THEN <<>>
        ELSE SubSeq(bits, CHOOSE j \in ones : \A i \in ones : j <= i, Len(bits))

\* the limbs of 55 digits, the most significant first
Limbs(bits) ==
    [i \in 1..5 |-> BitsToInt(SubSeq(bits, LimbBits * (i - 1) + 1, LimbBits * i))]

\* the digits of k times the number spelt by limbs[1..i], plus carry
RECURSIVE TimesLimbs(_, _, _, _)
TimesLimbs(limbs, i, k, carry) ==
    IF i = 0 THEN IntToBits(carry)
    ELSE TimesLimbs(limbs, i - 1, k, (limbs[i] * k + carry) \div LimbBase)
             \o PadLimb((limbs[i] * k + carry) % LimbBase)

\* the digits of k times the number spelt by the 53 digits bits
TimesFrom(bits, k) ==
    StripZeros(TimesLimbs(Limbs(<<0, 0>> \o bits), 5, k, 0))

\* the double k * x evaluates to, for an int k >= 0
FloatTimes(k, x) ==
    IF k = 0 \/ x.bits = <<>> THEN [bits |-> <<>>, exp |-> 0]
    ELSE RoundTo53(TimesFrom(x.bits, k), x.exp, FALSE)

\* int(x) of a double below 2^53
FloatToInt(x) ==
    IF x.bits = <<>> \/ 53 + x.exp <= 0 THEN 0
    ELSE BitsToInt(SubSeq(x.bits, 1, 53 + x.exp))

\* int(size * v) for the argument v of crop
IntOfProduct(size, v) ==
    IF v.t = "float" THEN FloatToInt(FloatTimes(size, FloatDiv(v.n, v.d)))
    ELSE size * v.n

\* ---- the pixels of the transforms, one band at a time ----

\* cv2.COLOR_RGB2GRAY on 8-bit pixels (OpenCV 4: 15-bit fixed point)
GreyOfRGB(p) == (p[1] * 9798 + p[2] * 19235 + p[3] * 3735 + 16384) \div 32768

\* Image.convert("L") of a red-green-blue pixel
LumaOfRGB(p) == (p[1] * 19595 + p[2] * 38470 + p[3] * 7471 + 32768) \div 65536

\* the index of a neighbour outside the image: cv2.BORDER_REFLECT_101 and
\* cv2.BORDER_REPLICATE
Reflect101(i, n) ==
    IF n = 1 THEN 1 ELSE IF i < 1 THEN 2 - i ELSE IF i > n THEN 2 * n - i ELSE i
Replicate(i, n) == IF i < 1 THEN 1 ELSE IF i > n THEN n ELSE i

\* cv2.GaussianBlur with radius 1: the 3 x 3 kernel of sigma 0.8, whose
\* weights in 8-bit fixed point are 61, 134, 61, applied along the rows and
\* then along the columns
BlurRows(px) ==
    [r \in 1..Len(px) |-> [c \in 1..Len(px[r]) |->
        (61 * px[r][Reflect101(c - 1, Len(px[r]))] + 134 * px[r][c]
         + 61 * px[r][Reflect101(c + 1, Len(px[r]))] + 128) \div 256]]
BlurColumns(px) ==
    [r \in 1..Len(px) |-> [c \in 1..Len(px[r]) |->
        (61 * px[Reflect101(r - 1, Len(px))][c] + 134 * px[r][c]
         + 61 * px[Reflect101(r + 1, Len(px))][c] + 128) \div 256]]
Blurred(image) == OpenCVImage(BlurColumns(BlurRows(image.px)), image.ext)

\* cv2.adaptiveThreshold(image, 255, ADAPTIVE_THRESH_MEAN_C, THRESH_BINARY,
\* 2 * radius + 1, c): 255 where the pixel is above the rounded mean of its
\* window less c
WindowSum(image, r, c, radius) ==
    LET Cell(a, b) == image.px[Replicate(a, Height(image))][Replicate(b, Width(image))]
        RECURSIVE Row(_, _)
        Row(a, b) == IF b > c + radius THEN 0 ELSE Cell(a, b) + Row(a, b + 1)
        RECURSIVE Rows(_)
        Rows(a) == IF a > r + radius THEN 0 ELSE Row(a, c - radius) + Rows(a + 1)
    IN  Rows(r - radius)
MeanThresholded(image, radius, c) ==
    LET n == (2 * radius + 1) * (2 * radius + 1)
    IN  OpenCVImage([r \in 1..Height(image) |-> [k \in 1..Width(image) |->
            IF image.px[r][k] > (2 * WindowSum(image, r, k, radius) + n) \div (2 * n) - c
            THEN 255 ELSE 0]], image.ext)

\* Image.rotate(angle, expand=True) for the quarter turns: a transposition
PillowRotated(image, angle) ==
    LET h == Height(image)
        w == Width(image)
    IN  CASE angle = 90 ->
               OpenCVImage([r \in 1..w |-> [c \in 1..h |-> image.px[c][w - r + 1]]],
                           image.ext)
          [] angle = 180 ->
               OpenCVImage([r \in 1..h |-> [c \in 1..w |->
                               image.px[h - r + 1][w - c + 1]]], image.ext)
          [] angle = 270 ->
               OpenCVImage([r \in 1..w |-> [c \in 1..h |-> image.px[h - c + 1][r]]],
                           image.ext)

\* Image.crop(box=(x, y, x + w, y + h)): what lies outside the image is 0
PillowCropped(image, x, y, w, h) ==
    OpenCVImage([r \in 1..h |-> [c \in 1..w |->
                    IF y + r \in 1..Height(image) /\ x + c \in 1..Width(image)
                    THEN image.px[y + r][x + c] ELSE 0]], image.ext)

\* ---- the transforms ----

\* OpenCVImage(out, ext=image.ext) and "out.format = image.format": a new
\* instance of the type of image, with its tag
Derived(image, px, mode) ==
    [image EXCEPT !.id = Fresh(image), !.px = px, !.mode = mode]

\* threshold, lines 422-431
Threshold(image, value) ==
    CASE image.type \in {"OpenCVImage", "PillowImage"} ->
            Returns(Derived(image,
                            MergeBands([b \in 1..NBands(image.mode) |->
                                        threshold(Band(image.px, b), value).px]),
                            image.mode))
      [] OTHER -> Raises("TypeError", image)

\* erode, lines 453-469
Erode(image, radius, iterations) ==
    IF radius.t = "None" \/ radius.n < 1 \/ iterations < 1 THEN Returns(image)
    ELSE CASE image.type = "OpenCVImage" ->
                Returns(Derived(image,
                         MergeBands([b \in 1..NBands(image.mode) |->
                                     ErodeTimes(Band(image.px, b), radius.n, iterations).px]),
                         image.mode))
           [] image.type = "PillowImage" ->
                \* Image.filter: "cannot filter palette images"
                IF image.mode = "P" THEN Raises("ValueError", image)
                ELSE Returns(Derived(image,
                         MergeBands([b \in 1..NBands(image.mode) |->
                                     ErodeTimes(Band(image.px, b), radius.n, iterations).px]),
                         image.mode))
           [] OTHER -> Raises("TypeError", image)

\* dilate, lines 491-507
Dilate(image, radius, iterations) ==
    IF radius.t = "None" \/ radius.n < 1 \/ iterations < 1 THEN Returns(image)
    ELSE CASE image.type = "OpenCVImage" ->
                Returns(Derived(image,
                         MergeBands([b \in 1..NBands(image.mode) |->
                                     DilateTimes(Band(image.px, b), radius.n, iterations).px]),
                         image.mode))
           [] image.type = "PillowImage" ->
                IF image.mode = "P" THEN Raises("ValueError", image)
                ELSE Returns(Derived(image,
                         MergeBands([b \in 1..NBands(image.mode) |->
                                     DilateTimes(Band(image.px, b), radius.n, iterations).px]),
                         image.mode))
           [] OTHER -> Raises("TypeError", image)

\* gaussian_blur, lines 527-541 (the pixels for radius 1; the kernel of
\* ImageFilter.GaussianBlur is taken to be that of cv2.GaussianBlur)
GaussianBlur(image, radius) ==
    IF radius.t = "None" \/ radius.n < 1 THEN Returns(image)
    ELSE CASE image.type = "OpenCVImage" ->
                Returns(Derived(image,
                         MergeBands([b \in 1..NBands(image.mode) |->
                                     Blurred(Band(image.px, b)).px]),
                         image.mode))
           [] image.type = "PillowImage" ->
                IF image.mode = "P" THEN Raises("ValueError", image)
                ELSE Returns(Derived(image,
                         MergeBands([b \in 1..NBands(image.mode) |->
                                     Blurred(Band(image.px, b)).px]),
                         image.mode))
           [] OTHER -> Raises("TypeError", image)

\* rotate, lines 560-607, for the quarter turns
Rotate(image, angle) ==
    IF angle.t = "None" \/ angle.n = 0 THEN Returns(image)
    ELSE LET a == IF angle.n < 0 THEN angle.n + 360 ELSE angle.n
         IN  CASE image.type = "OpenCVImage" ->
                    Returns(Derived(image,
                             MergeBands([b \in 1..NBands(image.mode) |->
                                         rotate(Band(image.px, b), a).px]),
                             image.mode))
               \* "x, y, w, h = image" of a plain array of pixels, which has not
               \* four rows (the corner of a bounding box is RotateCorner)
               [] image.type = "ndarray" ->
                    Raises("ValueError", image)
               [] image.type = "PillowImage" ->
                    Returns(Derived(image,
                             MergeBands([b \in 1..NBands(image.mode) |->
                                         PillowRotated(Band(image.px, b), a).px]),
                             image.mode))
               [] image.type \notin {"OpenCVImage", "ndarray", "PillowImage"} ->
                    Raises("TypeError", image)

\* crop, lines 642-646: the four arguments after the rescaling
CropRectangle(image, x, y, w, h) ==
    IF "float" \in {x.t, y.t, w.t, h.t}
    THEN [x |-> IntOfProduct(Width(image), x), y |-> IntOfProduct(Height(image), y),
          w |-> IntOfProduct(Width(image), w), h |-> IntOfProduct(Height(image), h)]
    ELSE [x |-> x.n, y |-> y.n, w |-> w.n, h |-> h.n]

\* crop, lines 634-655
Crop(image, x, y, w, h) ==
    LET q == CropRectangle(image, x, y, w, h)
    IN  CASE image.type = "OpenCVImage" ->
               Returns(Derived(image,
                        MergeBands([b \in 1..NBands(image.mode) |->
                                    crop(Band(image.px, b), q.x, q.y, q.w, q.h).px]),
                        image.mode))
          [] image.type = "PillowImage" ->
               Returns(Derived(image,
                        MergeBands([b \in 1..NBands(image.mode) |->
                                    PillowCropped(Band(image.px, b), q.x, q.y, q.w, q.h).px]),
                        image.mode))
          [] OTHER -> Raises("TypeError", image)

\* the single-band pixels cv2.COLOR_RGB2GRAY makes of a colour array
GreyPixels(px) ==
    [r \in 1..Len(px) |-> [c \in 1..Len(px[r]) |-> <<GreyOfRGB(px[r][c])>>]]

\* the single-band pixels Image.convert("L") makes of a colour image
LumaPixels(px) ==
    [r \in 1..Len(px) |-> [c \in 1..Len(px[r]) |-> <<LumaOfRGB(px[r][c])>>]]

\* a greyscale that always converts
GreyscaleCopies(image) ==
    IF image.type \in {"OpenCVImage", "PillowImage"}
    THEN Returns(Derived(image,
                         IF image.mode = "RGB" THEN GreyPixels(image.px)
                         ELSE image.px, "L"))
    ELSE Raises("TypeError", image)

\* greyscale, lines 671-684
Greyscale(image) ==
    CASE image.type = "OpenCVImage" ->
            IF image.mode # "RGB" THEN Returns(image)
            ELSE Returns(Derived(image, GreyPixels(image.px), "L"))
      [] image.type = "PillowImage" ->
            IF image.mode = "L" THEN Returns(image)
            ELSE IF image.mode = "P"
            THEN Returns(Derived(image,
                     LumaPixels(ExpandPalette(image.px)),
                     "L"))
            ELSE Returns(Derived(image, LumaPixels(image.px), "L"))
      [] OTHER -> Raises("TypeError", image)

\* invert, lines 700-708
Invert(image) ==
    CASE image.type = "OpenCVImage" ->
            Returns(Derived(image,
                     MergeBands([b \in 1..NBands(image.mode) |->
                                 invert(Band(image.px, b)).px]),
                     image.mode))
      [] image.type = "PillowImage" ->
            \* ImageOps.invert: a palette image is not supported
            IF image.mode = "P" THEN Raises("NotImplementedError", image)
            ELSE Returns(Derived(image,
                     MergeBands([b \in 1..NBands(image.mode) |->
                                 invert(Band(image.px, b)).px]),
                     image.mode))
      [] OTHER -> Raises("TypeError", image)

\* adaptive_threshold of an OpenCVImage, lines 735-740 (use_mean=True)
AdaptiveThresholdArray(image, radius, c) ==
    LET grey == IF image.mode = "RGB" THEN Greyscale(image) ELSE Returns(image)
    IN  IF grey.err # "" THEN grey
        ELSE Returns(NewOpenCVImage(
                 MergeBands([b \in 1..NBands("L") |->
                             MeanThresholded(Band(grey.val.px, b), radius, c).px]),
                 "L", grey.val.tag, Fresh(grey.val)))

\* adaptive_threshold, lines 734-745
AdaptiveThreshold(image, radius, c) ==
    CASE image.type = "OpenCVImage" -> AdaptiveThresholdArray(image, radius, c)
      [] image.type = "PillowImage" ->
            \* to_pil(adaptive_threshold(to_cv2(image))): the defaults
            LET out == AdaptiveThresholdArray(ToCv2(image).val, 2, 0)
            IN  IF out.err # "" THEN out ELSE ToPil(out.val)
      [] OTHER -> Raises("TypeError", image)

\* ---- the calls of the functions ----

\* the pixels of the input images: 8-bit greys, red-green-blue triples,
\* palette indices, and a row of 22 pixels
GreyPx == <<<<<<10>>, <<200>>>>, <<<<130>>, <<90>>>>>>
RGBPx == <<<<<<255, 0, 0>>, <<10, 200, 30>>>>, <<<<0, 0, 255>>, <<128, 127, 129>>>>>>
PalettePx == <<<<<<3>>, <<250>>>>, <<<<77>>, <<128>>>>>>
WidePx == <<[c \in 1..22 |-> <<10 * c>>]>>

PngRGB == EncodedImage("PNG", "89PNG", "RGB", RGBPx)
PngGrey == EncodedImage("PNG", "89PNG", "L", GreyPx)
BmpRGB == EncodedImage("BMP", "BM", "RGB", RGBPx)
\* a TIFF file in the byte order of Motorola starts with MM\0*
TiffMM == EncodedImage("TIFF", "MM*", "RGB", RGBPx)
TiffII == EncodedImage("TIFF", "II*", "L", GreyPx)
JpegRGB == EncodedImage("JPEG", "FFD8FF", "RGB", Lossy(RGBPx))

\* the objects given to the functions
InputObjects ==
    { NewOpenCVImage(GreyPx, "L", ".png", 1),
      NewOpenCVImage(RGBPx, "RGB", ".png", 1),
      NewOpenCVImage(RGBPx, "RGB", ".tif", 1),
      NewOpenCVImage(WidePx, "L", ".bmp", 1),
      NewPillowImage(GreyPx, "L", "PNG", 1),
      NewPillowImage(RGBPx, "RGB", "TIFF", 1),
      NewPillowImage(PalettePx, "P", "PNG", 1),
      \* Image.new / Image.fromarray: format is None
      NewPillowImage(RGBPx, "RGB", "None", 1),
      NewNdarray(GreyPx, "L", 1),
      NewBytesLike("bytes", PngGrey, 1),
      NewBytesLike("bytes", TiffMM, 1),
      NewBytesLike("bytes", NotAnImage, 1),
      NewBytesLike("BytesIO", BmpRGB, 1),
      NewBytesLike("memoryview", TiffII, 1),
      NewBytesLike("bytearray", JpegRGB, 1),
      \* the paths 'a.png', 'scan' and 'pic.tif' of image files
      NewStr(PngRGB, ".png", NotAnImage, FALSE, 1),
      NewStr(PngRGB, "", NotAnImage, TRUE, 1),
      NewStr(TiffMM, ".tif", NotAnImage, FALSE, 1),
      \* the Base64 text of a PNG file and of bytes that are no image
      NewStr(NoBytes, "", PngRGB, TRUE, 1),
      NewStr(NoBytes, "", NotAnImage, TRUE, 1),
      \* 'does/not/exist.jpg': no file, and b64decode raises (padding)
      NewStr(NoBytes, ".jpg", NoBytes, FALSE, 1),
      \* 'image.png': no file; b64decode drops the '.' and decodes 'imagepng'
      NewStr(NoBytes, ".png", NotAnImage, FALSE, 1) }

ThresholdValues == {0, 100, 255}
\* <<radius, iterations>> of erode and dilate
Morphologies == {<<PyNone, 1>>, <<PyInt(0), 1>>, <<PyInt(1), 0>>, <<PyInt(1), 1>>}
Radii == {PyNone, PyInt(0), PyInt(1)}
Angles == {PyNone, PyInt(0), PyInt(90)}

\* crop(image, x, y, w, h) is called with a rectangle inside the image, in
\* pixels or, as select_zoom does, as the floats x / width, y / height,
\* w / width, h / height
PixelRectangles(image) ==
    {q \in {<<0, 0, 2, 1>>, <<1, 1, 1, 1>>, <<0, 0, 1, 2>>, <<15, 0, 2, 1>>} :
        q[1] + q[3] <= Width(image) /\ q[2] + q[4] <= Height(image)}
CropInputs(image) ==
    {[k \in 1..4 |-> PyInt(q[k])] : q \in PixelRectangles(image)}
    \cup {<<PyFloat(q[1], Width(image)), PyFloat(q[2], Height(image)),
            PyFloat(q[3], Width(image)), PyFloat(q[4], Height(image))>> :
            q \in PixelRectangles(image)}
    \* one float among ints: crop(image, 0.5, 0, 1, 1)
    \cup {<<PyFloat(1, 2), PyInt(0), PyInt(1), PyInt(1)>> : q \in PixelRectangles(image)}

UtilsInit ==
    /\ u_hist \in {<<obj>> : obj \in InputObjects}
    /\ u_ops = <<>>
    /\ u_err = ""

InitUtils == UtilsInit /\ QueueInit /\ ProcessOff /\ GeometryOff /\ GuiOff /\ ConfigureOff
    /\ PreviewOff /\ SsocrOff

\* the object the next call is given: the input or what the last call returned
Current == u_hist[Len(u_hist)]

\* a call of the function op with the arguments args, whose outcome is res
Call(op, args, res) ==
    /\ u_hist # <<>>
    /\ u_err = ""
    /\ Len(u_ops) < MaxOps
    /\ u_ops' = Append(u_ops, [op |-> op, args |-> args])
    /\ u_hist' = IF res.err = "" THEN Append(u_hist, res.val) ELSE u_hist
    /\ u_err' = res.err
    /\ UNCHANGED <<qvars, pvars, rvars, svars, gvars, zvars, cvars>>

DoThreshold ==
    \E v \in ThresholdValues :
        Call("threshold", <<PyInt(v)>>, Threshold(Current, v))

DoErode ==
    \E m \in Morphologies :
        Call("erode", <<m[1], PyInt(m[2])>>, Erode(Current, m[1], m[2]))

DoDilate ==
    \E m \in Morphologies :
        Call("dilate", <<m[1], PyInt(m[2])>>, Dilate(Current, m[1], m[2]))

DoGaussianBlur ==
    \E r \in Radii : Call("gaussian_blur", <<r>>, GaussianBlur(Current, r))

DoRotate ==
    \E a \in Angles : Call("rotate", <<a>>, Rotate(Current, a))

DoCrop ==
    \E q \in CropInputs(Current) :
        Call("crop", q, Crop(Current, q[1], q[2], q[3], q[4]))

DoGreyscale == Call("greyscale", <<>>, Greyscale(Current))

DoInvert == Call("invert", <<>>, Invert(Current))

DoAdaptiveThreshold ==
    Call("adaptive_threshold", <<>>, AdaptiveThreshold(Current, 1, 0))

DoToBytes == Call("to_bytes", <<>>, ToBytes(Current))

DoToBase64 == Call("to_base64", <<>>, ToBase64(Current))

DoToPil == Call("to_pil", <<>>, ToPil(Current))

DoToCv2 == Call("to_cv2", <<>>, ToCv2(Current))

NextUtils ==
    \/ DoThreshold
    \/ DoErode
    \/ DoDilate
    \/ DoGaussianBlur
    \/ DoRotate
    \/ DoCrop
    \/ DoGreyscale
    \/ DoInvert
    \/ DoAdaptiveThreshold
    \/ DoToBytes
    \/ DoToBase64
    \/ DoToPil
    \/ DoToCv2

SpecUtils == InitUtils /\ [][NextUtils]_vars

----------------------------------------------------------------------------
(* The geometry of a zoom selection: rotate_zoom of ocr/gui.py.  The floats *)
(* of the code are exact fractions here: [n, d] with d > 0 in lowest terms, *)
(* and nan, which 0/0 gives, is [n |-> 0, d |-> 0].                         *)

RECURSIVE GCD(_, _)
GCD(a, b) == IF b = 0 THEN a ELSE GCD(b, a % b)
Abs(a) == IF a < 0 THEN -a ELSE a

NaN == [n |-> 0, d |-> 0]
IsNaN(a) == a.d = 0
\* the fraction n / d for d # 0
Frac(n, d) ==
    LET g == GCD(Abs(n), Abs(d))
        s == IF d < 0 THEN -1 ELSE 1
    IN  [n |-> s * (n \div g), d |-> s * (d \div g)]
Num(k) == [n |-> k, d |-> 1]

Plus(a, b) ==
    IF IsNaN(a) \/ IsNaN(b) THEN NaN ELSE Frac(a.n * b.d + b.n * a.d, a.d * b.d)
Minus(a, b) ==
    IF IsNaN(a) \/ IsNaN(b) THEN NaN ELSE Frac(a.n * b.d - b.n * a.d, a.d * b.d)
Times(a, b) == IF IsNaN(a) \/ IsNaN(b) THEN NaN ELSE Frac(a.n * b.n, a.d * b.d)
\* x / z of numpy floats: 0/0 is nan (a nonzero x over 0 does not occur)
Over(a, b) ==
    IF IsNaN(a) \/ IsNaN(b) \/ b.n = 0 THEN NaN ELSE Frac(a.n * b.d, a.d * b.n)
\* a < b; False if one of them is nan
Less(a, b) == ~IsNaN(a) /\ ~IsNaN(b) /\ a.n * b.d < b.n * a.d
\* min(a, b) and max(a, b) of Python: the first unless the second is beyond it
PyMin(a, b) == IF Less(b, a) THEN b ELSE a
PyMax(a, b) == IF Less(a, b) THEN b ELSE a

\* math.cos and math.sin of an angle in degrees that is a multiple of 90
Cos(deg) == Num(CASE deg % 360 = 0 -> 1 [] deg % 360 = 180 -> -1 [] OTHER -> 0)
Sin(deg) == Num(CASE deg % 360 = 90 -> 1 [] deg % 360 = 270 -> -1 [] OTHER -> 0)

\* rotate_highlighted, lines 575-600: the corners of the selection
rotate_highlighted(x, y, w, h, angle) ==
    LET quarter == 45 < Abs(angle) /\ Abs(angle) < 135
        theta   == IF quarter THEN angle - 90 ELSE angle
        cos     == Cos(-theta)
        sin     == Sin(-theta)
        cx      == Plus(x, Times(w, Frac(1, 2)))
        cy      == Plus(y, Times(h, Frac(1, 2)))
        rotate_point(p) ==
            <<Plus(Minus(Times(Minus(p[1], cx), cos), Times(Minus(p[2], cy), sin)), cx),
              Plus(Plus(Times(Minus(p[1], cx), sin), Times(Minus(p[2], cy), cos)), cy)>>
        corners == <<rotate_point(<<x, y>>), rotate_point(<<Plus(x, w), y>>),
                     rotate_point(<<Plus(x, w), Plus(y, h)>>),
                     rotate_point(<<x, Plus(y, h)>>)>>
    IN  IF quarter THEN <<corners[4], corners[1], corners[2], corners[3]>>
        ELSE corners

\* utils.rotate of the array [x, y, w, h], lines 563-598: the corner (x, y)
\* of a frame of w by h, rotated with the frame
RotateCorner(x, y, w, h, angle) ==
    LET a     == IF angle < 0 THEN angle + 360 ELSE angle
        cx    == Times(w, Frac(1, 2))
        cy    == Times(h, Frac(1, 2))
        \* cv2.getRotationMatrix2D((cx, cy), a, 1.0)
        alpha == Cos(a)
        beta  == Sin(a)
        m13   == Minus(Times(Minus(Num(1), alpha), cx), Times(beta, cy))
        m23   == Plus(Times(beta, cx), Times(Minus(Num(1), alpha), cy))
        cos   == Num(Abs(alpha.n))
        sin   == Num(Abs(beta.n))
        \* int() of whole numbers
        new_w == Plus(Times(h, sin), Times(w, cos))
        new_h == Plus(Times(h, cos), Times(w, sin))
        t13   == Plus(m13, Minus(Times(new_w, Frac(1, 2)), cx))
        t23   == Plus(m23, Minus(Times(new_h, Frac(1, 2)), cy))
    IN  <<Plus(Plus(Times(alpha, x), Times(beta, y)), t13),
          Plus(Plus(Times(Minus(Num(0), beta), x), Times(alpha, y)), t23)>>

\* rotate_image_corners, lines 603-608
rotate_image_corners(x, y, w, h, angle) ==
    LET corners == <<<<x, y>>, <<Plus(x, w), y>>, <<Plus(x, w), Plus(y, h)>>,
                     <<x, Plus(y, h)>>>>
    IN  IF angle = 0 THEN corners
        ELSE [i \in 1..4 |-> RotateCorner(corners[i][1], corners[i][2], w, h, angle)]

\* np.cross of two vectors of three
Cross(u, v) ==
    <<Minus(Times(u[2], v[3]), Times(u[3], v[2])),
      Minus(Times(u[3], v[1]), Times(u[1], v[3])),
      Minus(Times(u[1], v[2]), Times(u[2], v[1]))>>

\* get_intersection, lines 611-626
get_intersection(a1, a2, b1, b2) ==
    LET line1 == Cross(<<a1[1], a1[2], Num(1)>>, <<a2[1], a2[2], Num(1)>>)
        line2 == Cross(<<b1[1], b1[2], Num(1)>>, <<b2[1], b2[2], Num(1)>>)
        p     == Cross(line1, line2)
    IN  <<Over(p[1], p[3]), Over(p[2], p[3])>>

\* math.sqrt(dx ** 2 + dy ** 2) of a side that lies along an axis
SideLength(dx, dy) ==
    IF dy.n = 0 THEN Num(Abs(dx.n)) ELSE Num(Abs(dy.n))

\* rotate_zoom, lines 534-572, from the corners of the selection and of the
\* frame and the two intersections: <<x, y, w, h, width, height>>, or <<>>
\* for None
ZoomRegion(angle, rect, corners, inter_top, inter_bottom) ==
    LET v == CASE -45 <= angle /\ angle <= 45 ->
                    [x |-> Minus(inter_top[1], corners[1][1]),
                     y |-> Minus(rect[1][2], inter_top[2]),
                     w |-> Minus(PyMin(rect[2][1], corners[2][1]), rect[1][1]),
                     h |-> Minus(PyMin(rect[4][2], inter_bottom[2]), rect[1][2])]
               [] 45 < angle /\ angle < 135 ->
                    [x |-> Minus(corners[1][2], inter_top[2]),
                     y |-> Minus(rect[1][1], inter_top[1]),
                     w |-> Minus(PyMin(rect[1][2], corners[1][2]), rect[2][2]),
                     h |-> Minus(PyMin(rect[4][1], inter_bottom[1]), rect[1][1])]
               [] -45 > angle /\ angle > -135 ->
                    [x |-> Minus(inter_top[2], corners[1][2]),
                     y |-> Minus(inter_top[1], rect[1][1]),
                     w |-> Minus(PyMin(rect[2][2], corners[2][2]), rect[1][2]),
                     h |-> Minus(rect[1][1], PyMax(rect[4][1], inter_bottom[1]))]
               [] OTHER ->
                    [x |-> Minus(corners[1][1], inter_top[1]),
                     y |-> Minus(inter_top[2], rect[1][2]),
                     w |-> Minus(rect[1][1], PyMax(rect[2][1], corners[2][1])),
                     h |-> Minus(rect[1][2], PyMax(rect[4][2], corners[4][2]))]
        width  == SideLength(Minus(corners[2][1], corners[1][1]),
                             Minus(corners[2][2], corners[1][2]))
        height == SideLength(Minus(corners[4][1], corners[1][1]),
                             Minus(corners[4][2], corners[1][2]))
        \* "if x < 0: x, w = 0., x + w" and "if y < 0: y, h = 0., y + h"
        x1 == IF Less(v.x, Num(0)) THEN Num(0) ELSE v.x
        w1 == IF Less(v.x, Num(0)) THEN Plus(v.x, v.w) ELSE v.w
        y1 == IF Less(v.y, Num(0)) THEN Num(0) ELSE v.y
        h1 == IF Less(v.y, Num(0)) THEN Plus(v.y, v.h) ELSE v.h
    IN  IF Less(w1, Num(0)) \/ Less(h1, Num(0)) \/ Less(height, y1) \/ Less(width, x1)
        THEN <<>>
        ELSE <<Over(x1, width), Over(y1, height), Over(w1, width), Over(h1, height),
               width, height>>

\* the frames and the selections rotate_zoom is called with: the angle of the
\* slider, the rectangle dragged (it may be empty and may leave the frame)
\* and the size of the image
Frames == {<<3, 2>>, <<4, 3>>}
Selections == (-2..5) \X (-2..4) \X (0..2) \X (0..2)
SliderAngles == {0, 90, -90, 180}

GeometryInit ==
    /\ g_in \in {[angle |-> a, x |-> s[1], y |-> s[2], w |-> s[3], h |-> s[4],
                  width |-> f[1], height |-> f[2]] :
                    a \in SliderAngles, s \in Selections, f \in Frames}
    /\ g_pc = "called"
    /\ g_out = <<>>

InitGeometry == GeometryInit /\ QueueInit /\ ProcessOff /\ UtilsOff /\ GuiOff /\ ConfigureOff
    /\ PreviewOff /\ SsocrOff

\* values = rotate_zoom(angle, rect, width, height), lines 526-572
RotateZoom ==
    /\ g_pc = "called"
    /\ \E rect \in {rotate_highlighted(Num(g_in.x), Num(g_in.y), Num(g_in.w),
                                       Num(g_in.h), g_in.angle)},
          corners \in {rotate_image_corners(Num(0), Num(0), Num(g_in.width),
                                            Num(g_in.height), g_in.angle)} :
          \E inter_top \in {get_intersection(corners[1], corners[2], rect[1], rect[4])},
             inter_bottom \in {get_intersection(corners[3], corners[4], rect[1], rect[4])} :
             g_out' = ZoomRegion(g_in.angle, rect, corners, inter_top, inter_bottom)
    /\ g_pc' = "returned"
    /\ UNCHANGED <<g_in, qvars, pvars, rvars, svars, uvars, zvars, cvars>>

NextGeometry == RotateZoom

SpecGeometry == InitGeometry /\ [][NextGeometry]_vars

----------------------------------------------------------------------------
(* The zoom history of the Gui of ocr/gui.py.  The image of the Gui is     *)
(* ImageWidth by ImageHeight pixels; a rectangle is <<x, y, w, h>> of      *)
(* fractions.  apply_ocr, which every handler ends with, calls a function  *)
(* process of ocr.utils that the sources do not have: what it displays is  *)
(* not part of the state here.                                             *)

\* original_image.shape[:2]
ImageWidth == 8
ImageHeight == 4

\* self.delta, line 66
Delta == Frac(1, 100)

\* what the key 'zoom' or 'set_zoom' holds when it holds no rectangle
NoZoom == <<>>
FullFrame == <<Num(0), Num(0), Num(1), Num(1)>>

\* int() of a float >= 0
IntOf(a) == a.n \div a.d

\* select_zoom, lines 385-388: the size of the image on the canvas
DisplayedWidth ==
    IF zoom_history # <<>> THEN IntOf(Times(zoom_history[Len(zoom_history)][3], Num(ImageWidth)))
    ELSE ImageWidth
DisplayedHeight ==
    IF zoom_history # <<>> THEN IntOf(Times(zoom_history[Len(zoom_history)][4], Num(ImageHeight)))
    ELSE ImageHeight

\* select_zoom, lines 395-404: the rectangle in the coordinates of the
\* original image
Composed(values) ==
    IF zoom_history # <<>>
    THEN LET top == zoom_history[Len(zoom_history)]
         IN  <<Plus(Over(Times(values[1], values[5]), Num(ImageWidth)), top[1]),
               Plus(Over(Times(values[2], values[6]), Num(ImageHeight)), top[2]),
               Times(values[3], top[3]),
               Times(values[4], top[4])>>
    ELSE SubSeq(values, 1, 4)

\* append_zoom, lines 411-421
AppendZoom(rectangle) ==
    IF rectangle = NoZoom
    THEN /\ zoom_history' = <<>>
         /\ ocr_params' = [ocr_params EXCEPT !.zoom = NoZoom]
         /\ client_queue' = FullFrame
    ELSE /\ zoom_history' = Append(zoom_history, rectangle)
         /\ ocr_params' = [ocr_params EXCEPT !.zoom = rectangle]
         /\ client_queue' = rectangle

\* the rectangles dragged on the canvas, in half pixels <<2x, 2y, 2w, 2h>>:
\* whole and half pixels, empty rectangles, one outside of every canvas
Dragged == {<<0, 0, 16, 8>>, <<4, 2, 8, 4>>, <<2, 1, 4, 2>>, <<1, 1, 5, 3>>,
            <<1, 0, 2, 2>>, <<2, 0, 4, 4>>, <<0, 0, 0, 2>>, <<2, 2, 2, 0>>,
            <<20, 0, 2, 2>>}
HalfPixels(k) == Frac(k, 2)

GuiInit ==
    /\ zoom_history = <<>>
    /\ ocr_params = [zoom |-> NoZoom, rotate |-> 0]
    /\ client_queue = NoZoom
    /\ rotate_slider = 0
    /\ z_last = [handler |-> "", rect |-> <<>>]

InitGui == GuiInit /\ QueueInit /\ ProcessOff /\ UtilsOff /\ GeometryOff /\ ConfigureOff
    /\ PreviewOff /\ SsocrOff

\* select_zoom, lines 369-406, for a finished drag with the left button
SelectZoom ==
    /\ Len(zoom_history) < MaxZooms
    /\ DisplayedWidth > 0
    /\ DisplayedHeight > 0
    /\ \E d \in Dragged :
        /\ z_last' = [handler |-> "select_zoom", rect |-> d]
        /\ \E rect \in {rotate_highlighted(HalfPixels(d[1]), HalfPixels(d[2]),
                                           HalfPixels(d[3]), HalfPixels(d[4]),
                                           rotate_slider)},
              corners \in {rotate_image_corners(Num(0), Num(0), Num(DisplayedWidth),
                                                Num(DisplayedHeight), rotate_slider)} :
              \E inter_top \in {get_intersection(corners[1], corners[2], rect[1], rect[4])},
                 inter_bottom \in {get_intersection(corners[3], corners[4], rect[1], rect[4])} :
                 \E values \in {ZoomRegion(rotate_slider, rect, corners, inter_top,
                                           inter_bottom)} :
                    IF values = <<>>
                    THEN UNCHANGED <<zoom_history, ocr_params, client_queue>>
                    ELSE AppendZoom(Composed(values))
    /\ UNCHANGED <<rotate_slider, qvars, pvars, rvars, svars, uvars, gvars, cvars>>

\* keyPressEvent, lines 339-348: Ctrl+Z
KeyUndo ==
    /\ z_last' = [handler |-> "undo", rect |-> <<>>]
    /\ IF zoom_history = <<>>
       THEN UNCHANGED <<zoom_history, ocr_params, client_queue>>
       ELSE LET popped == SubSeq(zoom_history, 1, Len(zoom_history) - 1)
            IN  IF popped # <<>>
                THEN \* append_zoom(*self.zoom_history[-1]) appends to the popped list
                     /\ zoom_history' = Append(popped, popped[Len(popped)])
                     /\ ocr_params' = [ocr_params EXCEPT !.zoom = popped[Len(popped)]]
                     /\ client_queue' = popped[Len(popped)]
                ELSE AppendZoom(NoZoom)
    /\ UNCHANGED <<rotate_slider, qvars, pvars, rvars, svars, uvars, gvars, cvars>>

\* keyPressEvent, lines 350-351: Escape; dropEvent, line 335
KeyEscape ==
    /\ z_last' = [handler |-> "escape", rect |-> <<>>]
    /\ AppendZoom(NoZoom)
    /\ UNCHANGED <<rotate_slider, qvars, pvars, rvars, svars, uvars, gvars, cvars>>

\* keyPressEvent, lines 353-367: the arrow keys move the window
KeyArrow ==
    /\ zoom_history # <<>>
    /\ Len(zoom_history) < MaxZooms
    /\ \E key \in {"Up", "Down", "Left", "Right"} :
        LET top == zoom_history[Len(zoom_history)]
            dy == CASE key = "Up" -> PyMin(Delta, Minus(Minus(Num(1), top[4]), top[2]))
                    [] key = "Down" -> Minus(Num(0), PyMin(Delta, top[2]))
                    [] OTHER -> Num(0)
            dx == CASE key = "Left" -> PyMin(Delta, Minus(Minus(Num(1), top[3]), top[1]))
                    [] key = "Right" -> Minus(Num(0), PyMin(Delta, top[1]))
                    [] OTHER -> Num(0)
        IN  /\ z_last' = [handler |-> key, rect |-> <<>>]
            /\ IF dx # Num(0) \/ dy # Num(0)
               THEN AppendZoom(<<Plus(top[1], dx), Plus(top[2], dy), top[3], top[4]>>)
               ELSE UNCHANGED <<zoom_history, ocr_params, client_queue>>
    /\ UNCHANGED <<rotate_slider, qvars, pvars, rvars, svars, uvars, gvars, cvars>>

\* update_rotate, lines 441-444
UpdateRotate ==
    /\ \E value \in SliderAngles \ {rotate_slider} :
        /\ rotate_slider' = value
        /\ ocr_params' = [ocr_params EXCEPT !.rotate = value]
    /\ z_last' = [handler |-> "update_rotate", rect |-> <<>>]
    /\ UNCHANGED <<zoom_history, client_queue, qvars, pvars, rvars, svars, uvars,
                   gvars, cvars>>

\* capture, lines 513-523: the requests queued for the camera are sent
Capture ==
    /\ client_queue # NoZoom
    /\ client_queue' = NoZoom
    /\ z_last' = [handler |-> "capture", rect |-> <<>>]
    /\ UNCHANGED <<zoom_history, ocr_params, rotate_slider, qvars, pvars, rvars, svars,
                   uvars, gvars, cvars>>

NextGui ==
    \/ SelectZoom
    \/ KeyUndo
    \/ KeyEscape
    \/ KeyArrow
    \/ UpdateRotate
    \/ Capture

SpecGui == InitGui /\ [][NextGui]_vars

----------------------------------------------------------------------------
(* The camera zoom of Configure, ocr/gui/__init__.py, with a camera        *)
(* connected and the capture thread running.  A capture reads the settings *)
(* of the camera when it runs; the slot captured shows them later.  A      *)
(* handler that pauses the capture waits for the running one, whose result *)
(* is not shown.                                                           *)

\* the fractions of the displayed image the zoom ROI can cover
RoiFractions == {<<Frac(1, 4), Frac(1, 4), Frac(1, 2), Frac(1, 2)>>,
                 <<Num(0), Num(0), Frac(1, 2), Frac(1, 2)>>,
                 <<Frac(1, 2), Num(0), Frac(1, 2), Num(1)>>}

\* undo_zoom, line 274: settings['zoom'] == zoom.  The settings of a local
\* camera hold the tuple picamera returns, which no list is equal to; those
\* of a remote camera hold a list.
SettingsEqual(settings_zoom, zoom) == c_remote /\ settings_zoom = zoom

\* pause_capture, lines 386-393, then start_capture, lines 373-376
Restarted ==
    /\ c_paused' = FALSE
    /\ c_capture' = "running"

\* camera.update_settings({'zoom': zoom}) between pause_capture and start_capture
UpdateZoom(zoom) ==
    /\ c_camera' = zoom
    /\ Restarted

ConfigureInit ==
    /\ c_zoom_history = <<>>
    /\ c_zoom_roi = FALSE
    /\ c_paused = FALSE
    /\ c_capture = "running"
    /\ c_snapshot = FullFrame
    /\ c_displayed = FullFrame
    /\ c_camera = FullFrame
    /\ c_remote \in BOOLEAN
    /\ c_last = ""

InitConfigure == ConfigureInit /\ QueueInit /\ ProcessOff /\ UtilsOff /\ GeometryOff /\ GuiOff
    /\ PreviewOff /\ SsocrOff

\* create_zoom, lines 237-255 (no ROI preview is open)
CreateZoom ==
    /\ ~c_zoom_roi
    /\ c_zoom_roi' = TRUE
    /\ c_last' = "create_zoom"
    /\ UNCHANGED <<c_zoom_history, c_paused, c_capture, c_snapshot, c_displayed, c_camera,
                   c_remote, qvars, pvars, rvars, svars, uvars, gvars, zvars>>

\* keyPressEvent, lines 212-231: Return or Enter with the zoom ROI shown
ConfirmZoom ==
    /\ c_zoom_roi
    /\ Len(c_zoom_history) < MaxZooms
    /\ \E f \in RoiFractions :
        LET zoom == IF c_zoom_history # <<>>
                    THEN LET top == c_zoom_history[Len(c_zoom_history)]
                         IN  <<Plus(top[1], Times(f[1], top[3])),
                               Plus(top[2], Times(f[2], top[4])),
                               Times(top[3], f[3]), Times(top[4], f[4])>>
                    ELSE f
        IN  /\ c_zoom_history' = Append(c_zoom_history, zoom)
            /\ UpdateZoom(zoom)
    /\ c_zoom_roi' = FALSE
    /\ c_last' = "confirm"
    /\ UNCHANGED <<c_snapshot, c_displayed, c_remote, qvars, pvars, rvars, svars,
                   uvars, gvars, zvars>>

\* keyPressEvent, lines 232-234: Escape with the zoom ROI shown
AbortZoom ==
    /\ c_zoom_roi
    /\ c_zoom_roi' = FALSE
    /\ c_last' = "abort"
    /\ UNCHANGED <<c_zoom_history, c_paused, c_capture, c_snapshot, c_displayed, c_camera,
                   c_remote, qvars, pvars, rvars, svars, uvars, gvars, zvars>>

\* clear_zoom, lines 257-265
ClearZoom ==
    /\ c_last' = "clear"
    /\ IF c_zoom_history = <<>>
       THEN UNCHANGED <<c_zoom_history, c_paused, c_capture, c_camera>>
       ELSE /\ c_zoom_history' = <<>>
            /\ UpdateZoom(FullFrame)
    /\ UNCHANGED <<c_zoom_roi, c_snapshot, c_displayed, c_remote, qvars, pvars, rvars,
                   svars, uvars, gvars,
                   zvars>>

\* undo_zoom, lines 267-278
UndoZoom ==
    /\ c_last' = "undo"
    /\ LET popped == IF c_zoom_history = <<>> THEN <<>>
                     ELSE SubSeq(c_zoom_history, 1, Len(c_zoom_history) - 1)
       IN  /\ c_zoom_history' = popped
           /\ IF popped # <<>> THEN UpdateZoom(popped[Len(popped)])
              ELSE IF SettingsEqual(c_displayed, FullFrame)
              THEN UNCHANGED <<c_paused, c_capture, c_camera>>
              ELSE UpdateZoom(FullFrame)
    /\ UNCHANGED <<c_zoom_roi, c_snapshot, c_displayed, c_remote, qvars, pvars, rvars,
                   svars, uvars, gvars,
                   zvars>>

\* camera_button_clicked, lines 352-371: pause or resume
CameraButton ==
    /\ c_last' = "camera_button"
    /\ IF c_paused THEN Restarted
       ELSE /\ c_paused' = TRUE
            /\ c_capture' = "stopped"
    /\ UNCHANGED <<c_zoom_history, c_zoom_roi, c_snapshot, c_displayed, c_camera, c_remote,
                   qvars, pvars, rvars, svars, uvars, gvars, zvars>>

\* CaptureWorker.process, lines 37-41: capture_with_settings
CaptureDone ==
    /\ c_capture = "running"
    /\ c_capture' = "finished"
    /\ c_snapshot' = c_camera
    /\ c_last' = "process"
    /\ UNCHANGED <<c_zoom_history, c_zoom_roi, c_paused, c_displayed, c_camera, c_remote,
                   qvars, pvars, rvars, svars, uvars, gvars, zvars>>

\* captured, lines 395-403
Captured ==
    /\ c_capture = "finished"
    /\ ~c_paused
    /\ c_displayed' = c_snapshot
    /\ c_capture' = "running"
    /\ c_last' = "captured"
    /\ UNCHANGED <<c_zoom_history, c_zoom_roi, c_paused, c_snapshot, c_camera, c_remote,
                   qvars, pvars, rvars, svars, uvars, gvars, zvars>>

NextConfigure ==
    \/ CreateZoom
    \/ ConfirmZoom
    \/ AbortZoom
    \/ ClearZoom
    \/ UndoZoom
    \/ CameraButton
    \/ CaptureDone
    \/ Captured

SpecConfigure == InitConfigure /\ [][NextConfigure]_vars

----------------------------------------------------------------------------
(* ROIPreview and the cache prompt: ocr/gui/roi_preview.py.  The worker      *)
(* thread reads and writes neither ask_cache nor cropped; here the handlers  *)
(* of the GUI thread are followed, each one run to its end, and the queue    *)
(* holds what the GUI thread left in it.                                     *)

\* the array slices (x, y, w, h) the ROI can have
Rois == {<<0, 0, 2, 2>>, <<1, 0, 2, 2>>}
\* the task lists the user can build
TaskLists == {<<>>, <<"invert">>}
\* the algorithms whose executable was found: their widget.parameters() is
\* not {} (tesseract_widget.py and ssocr_widget.py, lines 48-50)
Installed == {"tesseract"}

\* apply_ocr, lines 230-259: what the call leaves in ask_cache
AskAfterApplyOcr(tab, ask) == IF tab \in Installed THEN TRUE ELSE ask

\* apply_ocr, lines 230-259: the label, the queue and the LED
ApplyOcr(image, tab, params) ==
    IF tab \notin Installed
    THEN /\ ocr_text' = ""
         /\ UNCHANGED <<queue, led>>
    ELSE /\ queue' = <<RequestItem(image, tab, params, 0)>>
         /\ led' = TRUE
         /\ UNCHANGED ocr_text

\* update_image, lines 196-205: process_image (and with it apply_ocr) runs
\* first, then ask_cache is assigned
UpdateImage(xywh, image) ==
    /\ ApplyOcr(image, r_tab, r_params)
    /\ ask_cache' = (cropped # xywh)
    /\ cropped' = xywh

\* ROIPreview.__init__, lines 65-157: cropped = (-1, -1, -1, -1), then
\* update_image(roi), then ask_cache = False
PreviewInit ==
    /\ r_roi \in Rois
    /\ cropped = r_roi
    /\ r_image \in Images
    /\ r_tasks \in TaskLists
    /\ r_tab \in Algorithms
    /\ r_params \in Parameters
    /\ r_pc = "open"
    /\ r_modified = FALSE
    /\ r_asked = FALSE
    /\ queue = IF r_tab \in Installed
               THEN <<RequestItem(r_image, r_tab, r_params, 0)>> ELSE <<>>
    /\ led = (r_tab \in Installed)
    /\ ask_cache = FALSE
    /\ ocr_text = ""
    /\ ppc = "idle"
    /\ pend = NoItem
    /\ wpc = "get"
    /\ cur = NoItem
    /\ text = ""
    /\ signals = <<>>
    /\ reqs = <<>>
    /\ calls = <<>>
    /\ inflight = {}
    /\ emitted = <<>>
    /\ discarded = {}
    /\ raised = {}
    /\ burst = <<>>
    /\ timedout = FALSE
    /\ cached = FALSE
    /\ superseded = {}

InitPreview ==
    /\ PreviewInit
    /\ ProcessOff /\ UtilsOff /\ GeometryOff /\ GuiOff /\ ConfigureOff /\ SsocrOff

\* a task is added, removed or edited: the task widgets call process_image
\* (task_widgets.py, lines 42-58), which ends with apply_ocr (lines 224-228)
EditTask ==
    /\ r_pc = "open"
    /\ \E tasks \in TaskLists \ {r_tasks} : r_tasks' = tasks
    /\ r_modified' = TRUE
    /\ ApplyOcr(r_image, r_tab, r_params)
    /\ ask_cache' = AskAfterApplyOcr(r_tab, ask_cache)
    /\ UNCHANGED <<cropped, r_roi, r_image, r_tab, r_params, r_pc, r_asked>>
    /\ UNCHANGED <<pvars, uvars, gvars, zvars, cvars, svars>>
    /\ UNCHANGED <<ppc, pend, wpc, cur, text, signals, reqs, calls, inflight,
                   emitted, discarded, raised, burst, timedout, cached,
                   superseded>>

\* a parameter widget of the current tab changes: its signal is connected
\* to apply_ocr (tesseract_widget.py, lines 72-132); the widgets exist only
\* if the algorithm is available
ChangeParameter ==
    /\ r_pc = "open"
    /\ r_tab \in Installed
    /\ \E params \in Parameters \ {r_params} :
          /\ r_params' = params
          /\ ApplyOcr(r_image, r_tab, params)
    /\ r_modified' = TRUE
    /\ ask_cache' = AskAfterApplyOcr(r_tab, ask_cache)
    /\ UNCHANGED <<cropped, r_roi, r_image, r_tasks, r_tab, r_pc, r_asked>>
    /\ UNCHANGED <<pvars, uvars, gvars, zvars, cvars, svars>>
    /\ UNCHANGED <<ppc, pend, wpc, cur, text, signals, reqs, calls, inflight,
                   emitted, discarded, raised, burst, timedout, cached,
                   superseded>>

\* tab.currentChanged is connected to apply_ocr (line 118); choosing another
\* algorithm is not counted as a modification of the parameters
TabChanged ==
    /\ r_pc = "open"
    /\ \E tab \in Algorithms \ {r_tab} :
          /\ r_tab' = tab
          /\ ApplyOcr(r_image, tab, r_params)
          /\ ask_cache' = AskAfterApplyOcr(tab, ask_cache)
    /\ UNCHANGED <<cropped, r_roi, r_image, r_tasks, r_params, r_pc,
                   r_modified, r_asked>>
    /\ UNCHANGED <<pvars, uvars, gvars, zvars, cvars, svars>>
    /\ UNCHANGED <<ppc, pend, wpc, cur, text, signals, reqs, calls, inflight,
                   emitted, discarded, raised, burst, timedout, cached,
                   superseded>>

\* the ROI is moved or resized: sigRegionChanged is connected to
\* update_image (line 82)
RegionChanged ==
    /\ r_pc = "open"
    /\ \E xywh \in Rois \ {r_roi} :
          /\ r_roi' = xywh
          /\ UpdateImage(xywh, r_image)
    /\ UNCHANGED <<r_image, r_tasks, r_tab, r_params, r_pc, r_modified, r_asked>>
    /\ UNCHANGED <<pvars, uvars, gvars, zvars, cvars, svars>>
    /\ UNCHANGED <<ppc, pend, wpc, cur, text, signals, reqs, calls, inflight,
                   emitted, discarded, raised, burst, timedout, cached,
                   superseded>>

\* a new capture is shown: Configure.set_image calls preview.update_image(roi)
\* for every preview (gui/__init__.py, lines 290-296)
NewCapture ==
    /\ r_pc = "open"
    /\ \E image \in Images :
          /\ r_image' = image
          /\ UpdateImage(r_roi, image)
    /\ UNCHANGED <<r_roi, r_tasks, r_tab, r_params, r_pc, r_modified, r_asked>>
    /\ UNCHANGED <<pvars, uvars, gvars, zvars, cvars, svars>>
    /\ UNCHANGED <<ppc, pend, wpc, cur, text, signals, reqs, calls, inflight,
                   emitted, discarded, raised, burst, timedout, cached,
                   superseded>>

\* cache, lines 172-175: the cache button
CacheButton ==
    /\ r_pc = "open"
    /\ cached' = TRUE
    /\ ask_cache' = FALSE
    /\ r_modified' = FALSE
    /\ UNCHANGED <<cropped, r_roi, r_image, r_tasks, r_tab, r_params, r_pc, r_asked>>
    /\ UNCHANGED <<pvars, uvars, gvars, zvars, cvars, svars>>
    /\ UNCHANGED <<queue, led, ocr_text, ppc, pend, wpc, cur, text, signals,
                   reqs, calls, inflight, emitted, discarded, raised, burst,
                   timedout, superseded>>

\* closeEvent, lines 177-193: the prompt if ask_cache, then the sentinel
ClosePreview ==
    /\ r_pc = "open"
    /\ r_asked' = ask_cache
    /\ \E yes \in BOOLEAN :
          IF ask_cache /\ yes
          THEN cached' = TRUE /\ ask_cache' = FALSE
          ELSE UNCHANGED <<cached, ask_cache>>
    /\ queue' = Append(queue, Sentinel)
    /\ r_pc' = "closed"
    /\ UNCHANGED <<cropped, r_roi, r_image, r_tasks, r_tab, r_params, r_modified>>
    /\ UNCHANGED <<pvars, uvars, gvars, zvars, cvars, svars>>
    /\ UNCHANGED <<led, ocr_text, ppc, pend, wpc, cur, text, signals, reqs,
                   calls, inflight, emitted, discarded, raised, burst,
                   timedout, superseded>>

NextPreview ==
    \/ EditTask
    \/ ChangeParameter
    \/ TabChanged
    \/ RegionChanged
    \/ NewCapture
    \/ CacheButton
    \/ ClosePreview

SpecPreview == InitPreview /\ [][NextPreview]_vars

----------------------------------------------------------------------------
(* The ssocr executable: ocr/ssocr.py.  A bytes object is the sequence of  *)
(* its bytes; a str object is [str |-> its code points].                    *)

\* number of lines the process writes to stderr
MaxLines == 2

\* line 260: b'TIFFReadDirectory: Warning'
WarningPrefix ==
    <<84, 73, 70, 70, 82, 101, 97, 100, 68, 105, 114, 101, 99, 116, 111,
      114, 121, 58, 32, 87, 97, 114, 110, 105, 110, 103>>

\* what imlib2 writes when a TIFF image is loaded (lines 257-258)
TagWarning ==
    <<84, 73, 70, 70, 82, 101, 97, 100, 68, 105, 114, 101, 99, 116, 111,
      114, 121, 58, 32, 87, 97, 114, 110, 105, 110, 103, 44, 32, 85, 110,
      107, 110, 111, 119, 110, 32, 102, 105, 101, 108, 100, 32, 119, 105,
      116, 104, 32, 116, 97, 103, 32, 50, 48, 54, 50, 52>>

\* the same text after a blank
IndentedWarning ==
    <<32, 84, 73, 70, 70, 82, 101, 97, 100, 68, 105, 114, 101, 99, 116,
      111, 114, 121, 58, 32, 87, 97, 114, 110, 105, 110, 103>>

\* a cut line
CutWarning ==
    <<84, 73, 70, 70, 82, 101, 97, 100, 68, 105, 114, 101, 99, 116, 111,
      114, 121, 58, 32, 87, 97, 114, 110>>

\* a message of ssocr itself
Failure ==
    <<102, 111, 117, 110, 100, 32, 111, 110, 108, 121, 32, 49, 32, 111,
      102, 32, 50, 32, 100, 105, 103, 105, 116, 115>>

\* the lines the process can write to stderr, and how a line can end
StderrLines == {WarningPrefix, TagWarning, IndentedWarning, CutWarning, Failure, <<>>}
LineBreaks == {<<10>>, <<13, 10>>}

\* lines[1] breaks[1] lines[2] breaks[2] ...
RECURSIVE JoinLines(_, _)
JoinLines(lines, breaks) ==
    IF lines = <<>> THEN <<>>
    ELSE lines[1] \o breaks[1] \o JoinLines(Tail(lines), Tail(breaks))

\* the line breaks of n lines: only the last line can go without
BreaksOf(n) ==
    {breaks \in [1..n -> LineBreaks \cup {<<>>}] :
        \A k \in 1..(n - 1) : breaks[k] # <<>>}

\* what the process can have written to stderr: up to MaxLines lines
Stderrs ==
    UNION {{JoinLines(lines, breaks) :
               lines \in [1..n -> StderrLines], breaks \in BreaksOf(n)} :
           n \in 0..MaxLines}

\* what ssocr can have written to stdout: the characters of its character
\* sets are ASCII
Stdouts == {<<>>, <<56>>, <<56, 10>>, <<49, 32, 50, 32, 13, 10>>, <<10>>}

\* bytes.splitlines(): a line ends at "\n", at "\r" or at "\r\n"
LineEnds(b) ==
    {i \in 1..Len(b) :
        b[i] = 10 \/ (b[i] = 13 /\ ~(i < Len(b) /\ b[i + 1] = 10))}

LineStarts(b) == {i \in 1..Len(b) : i = 1 \/ (i - 1) \in LineEnds(b)}

\* the line that starts at s, without its line break
LineAt(b, s) ==
    LET ends == {e \in LineEnds(b) : e >= s}
        e == IF ends = {} THEN Len(b) + 1 ELSE SetMin(ends)
        last == IF e <= Len(b) /\ e > s /\ b[e] = 10 /\ b[e - 1] = 13
                THEN e - 2 ELSE e - 1
    IN  SubSeq(b, s, last)

splitlines(b) ==
    LET starts == LineStarts(b)
    IN  [k \in 1..Cardinality(starts) |->
            LineAt(b, CHOOSE s \in starts :
                          Cardinality({t \in starts : t < s}) = k - 1)]

\* bytes.startswith(prefix)
startswith(b, prefix) ==
    Len(b) >= Len(prefix) /\ SubSeq(b, 1, Len(prefix)) = prefix

\* bytes.rstrip(): trailing ASCII whitespace is removed
Whitespace == {9, 10, 11, 12, 13, 32}
rstrip(b) ==
    LET keep == {i \in 1..Len(b) : b[i] \notin Whitespace}
    IN  IF keep = {} THEN <<>> ELSE SubSeq(b, 1, SetMax(keep))

\* bytes.decode() and bytes.decode('ascii'): ASCII bytes give the str of the
\* same code points under both codecs
decode(b) ==
    IF \A i \in 1..Len(b) : b[i] < 128
    THEN [str |-> b]
    ELSE [raise |-> "UnicodeDecodeError"]

\* _run without lines 256-261: any output on stderr is an error
_runStrict(p, debug) ==
    IF ~p.found
    THEN [kind |-> "raise", exc |-> "FileNotFoundError"]
    ELSE IF debug
    THEN [kind |-> "return",
          value |-> [str |-> decode(p.stderr).str \o decode(rstrip(p.stdout)).str]]
    ELSE IF p.stderr # <<>>
    THEN [kind |-> "raise", exc |-> "RuntimeError", msg |-> decode(p.stderr)]
    ELSE [kind |-> "return", value |-> decode(rstrip(p.stdout))]

\* _run, lines 240-263; p is what subprocess.run found and collected
_run(p, debug) ==
    IF ~p.found
    THEN [kind |-> "raise", exc |-> "FileNotFoundError"]
    ELSE IF debug
    THEN [kind |-> "return",
          value |-> [str |-> decode(p.stderr).str \o decode(rstrip(p.stdout)).str]]
    ELSE IF /\ p.stderr # <<>>
            /\ LET lines == splitlines(p.stderr)
               IN  \E k \in DOMAIN lines : ~startswith(lines[k], WarningPrefix)
    THEN [kind |-> "raise", exc |-> "RuntimeError", msg |-> decode(p.stderr)]
    ELSE [kind |-> "return", value |-> decode(rstrip(p.stdout))]

SsocrInit ==
    /\ s_in \in [found : BOOLEAN, stdout : Stdouts, stderr : Stderrs,
                 debug : BOOLEAN]
    /\ s_pc = "start"
    /\ s_out = [kind |-> "None"]

InitSsocr ==
    /\ SsocrInit
    /\ QueueInit /\ ProcessOff /\ UtilsOff /\ GeometryOff /\ GuiOff /\ ConfigureOff
    /\ PreviewOff

\* one call of _run
Run ==
    /\ s_pc = "start"
    /\ s_out' = _run(s_in, s_in.debug)
    /\ s_pc' = "done"
    /\ UNCHANGED <<s_in, qvars, pvars, uvars, gvars, zvars, cvars, rvars>>

NextSsocr == Run

SpecSsocr == InitSsocr /\ [][NextSsocr]_vars

----------------------------------------------------------------------------
(* Claims about the dispatch queue *)

\* the backend invocation calls[k] got exactly what trigger calls[k].id asked for
FaithfulCall(c) ==
    /\ c.id \in 1..Len(reqs)
    /\ c.function = "apply"
    /\ c.image = reqs[c.id].image
    /\ c.algorithm = reqs[c.id].algorithm
    /\ c.parameters = reqs[c.id].parameters

C1_Safe ==
    /\ \A k \in 1..Len(calls) : FaithfulCall(calls[k])
    /\ \A k, l \in 1..Len(calls) : calls[k].id = calls[l].id => k = l
    /\ \A k \in 1..Len(calls) : calls[k].id \notin discarded
    /\ Len(burst) >= 2 =>
          /\ \A k \in 1..(Len(burst) - 1) :
                burst[k] \in discarded /\ burst[k] \notin CallIds
          /\ queue # <<>> =>
                /\ Head(queue).id = burst[Len(burst)]
                /\ FaithfulCall(Head(queue))

\* the worker's next dequeue after such a burst starts the invocation of the
\* burst's last request
C1_GetsLast ==
    (Len(burst) >= 2 /\ burst' = <<>>) =>
        /\ Len(calls') = Len(calls) + 1
        /\ calls'[Len(calls')].id = burst[Len(burst)]

\* C1: when two or more requests were put while the worker dequeued nothing,
\* the worker's next dequeue happens and invokes the backend with the request
\* of the last of these triggers, carrying that trigger's image, algorithm and
\* parameters; the earlier ones were discarded and are never invoked; no
\* request is invoked twice.
C1_Coalescing ==
    /\ []C1_Safe
    /\ [][C1_GetsLast]_vars
    /\ (Len(burst) >= 2) ~> (burst = <<>>)

\* three triggers, one invocation: that of the third
C1_Witness ==
    /\ Len(reqs) = 3
    /\ discarded = {1, 2}
    /\ Len(calls) = 1
    /\ calls[1].id = 3
    /\ calls[1].parameters = "p2"
    /\ wpc = "get"
    /\ queue = <<>>

\* C2: apply_ocr never blocks on the queue (whatever the worker does between
\* the producer's queue operations, line 256 finds an item to get) and, once it
\* has returned, no request older than the one it put is queued.
C2_ProducerNeverBlocks ==
    /\ ~(ppc = "get" /\ queue = <<>>)
    /\ ppc = "idle" => \A i \in QueuedIds : i = 0 \/ i = Len(reqs)

\* C3: a request that was put and not yet dequeued by the worker when a newer
\* request is put has been discarded, is not in the queue and is never passed
\* to the backend.
C3_SupersededNeverRun ==
    \A i \in superseded :
        /\ i \in discarded
        /\ i \notin QueuedIds
        /\ i \notin CallIds

C3_Witness ==
    /\ 1 \in superseded
    /\ 2 \in CallIds
    /\ wpc = "get"
    /\ emitted # <<>>

\* C4: a backend invocation that raises yields the empty string as the text
\* emitted for that request; the worker thread survives it, and every request
\* in the queue is later got and invoked by the worker unless the producer
\* discards it.
C4_Safe ==
    /\ wpc # "crashed"
    /\ \A k \in 1..Len(emitted) : emitted[k].id \in raised => emitted[k].text = ""
    /\ (wpc = "emit" /\ cur.id \in raised) => text = ""
    /\ raised \subseteq CallIds

C4_BackendErrorDowngraded ==
    /\ []C4_Safe
    /\ \A i \in 1..MaxTriggers :
          (i \in QueuedIds) ~> (i \in CallIds \/ i \in discarded)

\* request 1 raised, the empty text was emitted, request 2 was invoked afterwards
C4_Witness ==
    /\ 1 \in raised
    /\ Len(emitted) >= 2
    /\ emitted[1] = [id |-> 1, text |-> ""]
    /\ emitted[2].id = 2
    /\ emitted[2].text # ""

\* C5: at most one backend invocation is in progress; results are emitted in
\* the order of the invocations and each before the next invocation starts;
\* an invocation in progress is left alone by every step of the producer and
\* ends in the emission of its own result.
C5_Serial ==
    /\ Cardinality(inflight) <= 1
    /\ wpc = "call" => inflight = {cur.id}
    /\ Len(calls) = Len(emitted) + (IF wpc \in {"call", "emit"} THEN 1 ELSE 0)
    /\ \A k \in 1..Len(emitted) : emitted[k].id = calls[k].id

C5_RunsToCompletion ==
    wpc = "call" =>
        \/ wpc' = "call" /\ cur' = cur /\ inflight' = inflight /\ calls' = calls
        \/ wpc' = "emit" /\ cur' = cur /\ calls' = calls

C5_SerialNonPreemptive == []C5_Serial /\ [][C5_RunsToCompletion]_vars

\* request 1 is being executed while 2 was discarded and 3 waits
C5_Witness ==
    /\ wpc = "call"
    /\ cur.id = 1
    /\ 2 \in discarded
    /\ queue # <<>>
    /\ Head(queue).id = 3

\* C6: once the sentinel is in the queue the worker eventually leaves its loop;
\* after that it invokes nothing; and the producer's wait in closeEvent ends.
C6_NoCallAfterExit == wpc = "done" => (wpc' = "done" /\ calls' = calls)

C6_Shutdown ==
    /\ (\E k \in 1..Len(queue) : queue[k].function = "None") ~> (wpc = "done")
    /\ (ppc = "stop") ~> (ppc = "closed")
    /\ [][C6_NoCallAfterExit]_vars

\* the worker left after the sentinel, the wait ended by the worker's exit
C6_Witness ==
    /\ wpc = "done"
    /\ ppc = "closed"
    /\ ~timedout
    /\ Len(calls) >= 1

\* the wait ended by the timeout while a backend call was in progress
C6_WitnessTimeout ==
    /\ ppc = "closed"
    /\ timedout
    /\ wpc = "call"

----------------------------------------------------------------------------
(* Claims about process *)

\* the tasks as the caller wrote them: a list as it is, a dict in the order
\* its keys were inserted
GivenItems ==
    IF p_tasks.kind = "list" THEN p_tasks.items
    ELSE [k \in 1..Len(p_tasks.keys) |->
             [n |-> 2, name |-> p_tasks.keys[k], value |-> p_tasks.val[p_tasks.keys[k]]]]

GivenValue(k) == IF GivenItems[k].n = 1 THEN NoneValue ELSE GivenItems[k].value

\* the operation of item, called by hand on image
HandCall(item, image) ==
    LET v == IF item.n = 1 THEN NoneValue ELSE item.value
    IN  CASE v.shape = "none"   -> ApplyOp(item.name, image, Bind(Signature(item.name), <<>>, <<>>).args)
          [] v.shape = "scalar" -> ApplyOp(item.name, image, Bind(Signature(item.name), v.pos, <<>>).args)
          [] v.shape = "seq"    -> ApplyOp(item.name, image, Bind(Signature(item.name), v.pos, <<>>).args)
          [] v.shape = "map"    -> ApplyOp(item.name, image, Bind(Signature(item.name), <<>>, v.kw).args)

\* the operations of items[1..k] called by hand, one after the other
RECURSIVE ByHand(_, _, _)
ByHand(image, items, k) ==
    IF k = 0 THEN image ELSE HandCall(items[k], ByHand(image, items, k - 1))

\* C7: when process returns (transform_only off), it has made exactly one
\* operation call per task item, in the order given (the insertion order for
\* a dict), repeated tasks included, and the image returned is the one got by
\* calling these operations by hand in that sequence.
C7_OrderPreserved ==
    (p_pc = "returned" /\ ~p_transform_only) =>
        /\ Len(p_calls) = Len(GivenItems)
        /\ \A k \in 1..Len(p_calls) : p_calls[k].name = GivenItems[k].name
        /\ p_image = ByHand(p_in, GivenItems, Len(GivenItems))

\* threshold, invert, threshold again: three calls, in that order
C7_Witness ==
    /\ p_pc = "returned"
    /\ ~p_transform_only
    /\ p_tasks.kind = "list"
    /\ Len(p_calls) = 3
    /\ p_calls[1].name = "threshold"
    /\ p_calls[2].name = "invert"
    /\ p_calls[3].name = "threshold"
    /\ p_image # p_in
    /\ p_image # ByHand(p_in, <<GivenItems[2], GivenItems[1]>>, 2)

IsCropOrRotate(item) == item.name \in {"crop", "rotate"}

\* C8 as claimed: with transform_only set, whatever the task items, the call
\* ends exactly as process without transform_only ends on the sub-sequence of
\* the crop and rotate tasks: every other item is skipped.
C8_SkipsEveryOtherItem ==
    (/\ p_pc \in {"returned", "raised"}
     /\ p_transform_only
     /\ ~Falsy(p_tasks)
     /\ ~(p_tasks.kind = "dict" /\ p_lt36)) =>
        LET r == ProcessList(p_in, SelectSeq(GivenItems, IsCropOrRotate), FALSE)
        IN  /\ r.pc = p_pc
            /\ r.err = p_err
            /\ r.image = p_image
            /\ r.calls = p_calls

\* C8 amended: with transform_only set and task items of one or two elements,
\* the call ends exactly as process without transform_only ends on the
\* sub-sequence of the crop and rotate tasks: same calls with the same
\* arguments in the same order, same image, same outcome.
C8_TransformOnly ==
    (/\ p_pc \in {"returned", "raised"}
     /\ p_transform_only
     /\ ~Falsy(p_tasks)
     /\ ~(p_tasks.kind = "dict" /\ p_lt36)
     /\ \A k \in 1..Len(GivenItems) : GivenItems[k].n \in {1, 2}) =>
        LET r == ProcessList(p_in, SelectSeq(GivenItems, IsCropOrRotate), FALSE)
        IN  /\ r.pc = p_pc
            /\ r.err = p_err
            /\ r.image = p_image
            /\ r.calls = p_calls

\* crop, threshold, rotate: the threshold is skipped
C8_Witness ==
    /\ p_pc = "returned"
    /\ p_transform_only
    /\ Len(GivenItems) = 3
    /\ GivenItems[1].name = "crop"
    /\ GivenItems[2].name = "threshold"
    /\ GivenItems[3].name = "rotate"
    /\ Len(p_calls) = 2
    /\ p_calls[1].name = "crop"
    /\ p_calls[2].name = "rotate"
    /\ p_image = rotate(crop(p_in, 0, 0, 2, 1), 90)

RegisteredTen ==
    {"crop", "rotate", "threshold", "dilate", "erode", "gaussian_blur",
     "greyscale", "invert", "adaptive_threshold", "zoom"}

LookedUp(k) == ~p_transform_only \/ GivenItems[k].name \in {"crop", "rotate"}

\* C9 amended: a task name that is looked up is accepted exactly when it is an
\* attribute of the module ocr.utils; otherwise the task fails with
\* AttributeError; after a failure no call is made.
C9_Lookup ==
    p_pc \in {"loop", "returned", "raised"} =>
        /\ \A k \in 1..(p_i - 1) : LookedUp(k) => GivenItems[k].name \in UtilsAttrs
        /\ (p_pc = "raised" /\ p_i >= 1 /\ GivenItems[p_i].n \in {1, 2}) =>
              (p_err = "AttributeError" <=>
                  (LookedUp(p_i) /\ GivenItems[p_i].name \notin UtilsAttrs))
        /\ (p_pc = "raised" /\ ~p_transform_only /\ p_i >= 1) => Len(p_calls) = p_i - 1

C9_NothingAfterFailure ==
    p_pc = "raised" => (p_pc' = "raised" /\ p_calls' = p_calls /\ p_image' = p_image)

C10_BindingByShape ==
    (~p_transform_only /\ p_pc \in {"loop", "returned", "raised"}) =>
        /\ \A k \in 1..Len(p_calls) :
              LET v == GivenValue(k)
                  c == p_calls[k]
              IN  /\ v.shape = "none" => (c.pos = <<>> /\ c.kw = <<>>)
                  /\ v.shape = "seq" => (c.pos = v.pos /\ c.kw = <<>>)
                  /\ v.shape = "map" =>
                        /\ c.pos = <<>>
                        /\ c.kw = v.kw
                        /\ \A j \in 1..Len(v.kw) : c.args[v.kw[j][1]] = v.kw[j][2]
                  /\ v.shape = "scalar" =>
                        /\ c.pos = v.pos
                        /\ c.kw = <<>>
                        /\ c.args[Signature(c.name).pos[1]] = v.pos[1]
                  /\ (c.name = "dilate" /\ v \in {DilateTuple, DilateDict}) =>
                        c.args = [radius |-> 1, iterations |-> 2]
                  /\ (c.name = "dilate" /\ v = Scalar(1)) =>
                        c.args = [radius |-> 1, iterations |-> 1]
        /\ (p_pc = "returned" /\ Len(GivenItems) = 1 /\ GivenItems[1].name = "dilate") =>
              /\ GivenValue(1) \in {DilateTuple, DilateDict} => p_image = dilate(p_in, 1, 2)
              /\ GivenValue(1) = Scalar(1) => p_image = dilate(p_in, 1, 1)

\* the dict form of dilate was executed, then the tuple form, then the scalar
C10_Witness ==
    /\ p_pc = "returned"
    /\ ~p_transform_only
    /\ Len(p_calls) = 3
    /\ GivenValue(1) = DilateDict
    /\ GivenValue(2) = DilateTuple
    /\ GivenValue(3) = Scalar(1)
    /\ p_calls[1].args = p_calls[2].args
    /\ p_calls[3].args = [radius |-> 1, iterations |-> 1]
    /\ p_image # p_in

\* one dict-form dilate: the image is the dilation with radius 1, twice
C10_WitnessImage ==
    /\ p_pc = "returned"
    /\ Len(GivenItems) = 1
    /\ GivenValue(1) = DilateDict
    /\ p_image = dilate(p_in, 1, 2)
    /\ p_image # dilate(p_in, 1, 1)

\* the names process can call in this model
Signatured ==
    {"crop", "rotate", "threshold", "dilate", "erode", "greyscale", "invert",
     "to_cv2"}

\* item k is not a sequence of one or two elements
Malformed(k) == GivenItems[k].n \notin {1, 2}

\* the arguments item k gives do not fit the parameters of its operation: too
\* many positional ones, a keyword that names no parameter or one already
\* given by position, or a parameter without default that is not given
ArityMismatch(k) ==
    LET item  == GivenItems[k]
        sig   == Signature(item.name)
        v     == GivenValue(k)
        npos  == IF v.shape = "map" THEN 0 ELSE Len(v.pos)
        kws   == IF v.shape = "map" THEN {v.kw[j][1] : j \in 1..Len(v.kw)} ELSE {}
        first == {sig.pos[j] : j \in 1..Min(npos, Len(sig.pos))}
    IN  /\ item.n \in {1, 2}
        /\ item.name \in Signatured
        /\ \/ npos > Len(sig.pos)
           \/ \E p \in kws : p \in first \/ \A j \in 1..Len(sig.pos) : sig.pos[j] # p
           \/ \E j \in 1..Len(sig.pos) :
                 /\ sig.pos[j] \notin first \cup kws
                 /\ sig.pos[j] \notin DOMAIN sig.def

----------------------------------------------------------------------------
(* Claims about the functions of ocr/utils.py *)

\* the calls that returned: call k was given u_hist[k] and returned u_hist[k + 1]
Returned == 1..(Len(u_hist) - 1)
\* the call that raised, if one did
Failed == IF u_err = "" THEN {} ELSE {Len(u_ops)}
Given(k) == u_hist[k]
Result(k) == u_hist[k + 1]
IsImage(obj) == obj.type \in {"OpenCVImage", "PillowImage"}

\* call k is one of the no-op cases of dilate, erode, gaussian_blur and rotate
NoOpArguments(k) ==
    LET op == u_ops[k].op
        a  == u_ops[k].args
    IN  \/ op \in {"dilate", "erode"}
             /\ (a[1].t = "None" \/ a[1].n < 1 \/ a[2].n < 1)
        \/ op = "gaussian_blur" /\ (a[1].t = "None" \/ a[1].n < 1)
        \/ op = "rotate" /\ (a[1].t = "None" \/ a[1].n = 0)

SamePixels(a, b) == a.type = b.type /\ a.mode = b.mode /\ a.px = b.px

\* every band value of out is F of the band value of in at the same place
Pointwise(in, out, F) ==
    /\ Len(out.px) = Len(in.px)
    /\ \A r \in 1..Len(in.px) :
          /\ Len(out.px[r]) = Len(in.px[r])
          /\ \A c \in 1..Len(in.px[r]) :
                /\ Len(out.px[r][c]) = Len(in.px[r][c])
                /\ \A b \in 1..Len(in.px[r][c]) :
                      out.px[r][c][b] = F[in.px[r][c][b]]

ExactRectangle(k) ==
    LET a      == u_ops[k].args
        scaled == \E i \in 1..4 : a[i].t = "float"
        size   == <<Width(Given(k)), Height(Given(k)), Width(Given(k)), Height(Given(k))>>
    IN  [i \in 1..4 |-> IF scaled THEN (a[i].n * size[i]) \div a[i].d ELSE a[i].n]

\* the h rows of w pixels of image from row y and column x on
Block(image, x, y, w, h) ==
    [i \in 1..h |-> [j \in 1..w |-> image.px[y + i][x + j]]]

\* C14 as claimed: crop with an integer rectangle inside the image returns
\* the block out[i][j] = image[y+i][x+j]; with a float among the arguments
\* all four are rescaled by the width and the height, and the pixels returned
\* are those of the equivalent rectangle in pixels.
C14_CropsExactRectangle ==
    \A k \in Returned :
        (u_ops[k].op = "crop" /\ IsImage(Given(k))) =>
            LET q == ExactRectangle(k)
            IN  /\ Result(k).px =
                      Crop(Given(k), PyInt(q[1]), PyInt(q[2]), PyInt(q[3]), PyInt(q[4])).val.px
                /\ (q[1] + q[3] <= Width(Given(k)) /\ q[2] + q[4] <= Height(Given(k))) =>
                      Result(k).px = Block(Given(k), q[1], q[2], q[3], q[4])

Transforms ==
    {"crop", "rotate", "threshold", "dilate", "erode", "gaussian_blur",
     "greyscale", "invert", "adaptive_threshold"}

\* C15 as claimed: every transform that returns gives an image of the kind
\* it was given whose format tag (OpenCVImage.ext, Image.format) is the tag
\* of its input.
C15_TagPreserved ==
    \A k \in Returned :
        (u_ops[k].op \in Transforms /\ IsImage(Given(k))) =>
            /\ Result(k).type = Given(k).type
            /\ Result(k).tag = Given(k).tag

LosslessCodecs == {"PNG", "BMP", "TIFF"}

\* an image of a lossless format: an image object tagged so, or the bytes,
\* the path or the Base64 text of a file of such a format
Lossless(x) ==
    CASE IsImage(x) -> Family(x.tag) \in {"png", "bmp", "tiff"}
      [] x.type \in BytesLike -> x.file.codec \in LosslessCodecs
      [] x.type = "str" ->
            \/ x.file.codec \in LosslessCodecs
            \/ x.file = NoBytes /\ x.b64.codec \in LosslessCodecs
      [] OTHER -> FALSE

\* C16 as claimed: for an image of a lossless format in any representation,
\* to_bytes, to_base64 and to_pil return, to_cv2 of what they return returns,
\* and its pixels and the family of its tag are those of to_cv2 of the
\* original.
C16_RoundTrip ==
    (/\ Len(u_ops) >= 1
     /\ Lossless(u_hist[1])
     /\ u_ops[1].op \in {"to_bytes", "to_base64", "to_pil"})
    => /\ 1 \in Returned
       /\ (Len(u_ops) >= 2 /\ u_ops[2].op = "to_cv2") =>
             /\ 2 \in Returned
             /\ ToCv2(u_hist[1]).err = ""
             /\ Result(2).mode = ToCv2(u_hist[1]).val.mode
             /\ Result(2).px = ToCv2(u_hist[1]).val.px
             /\ Family(Result(2).tag) = Family(ToCv2(u_hist[1]).val.tag)

\* the tag of the magic prefix the bytes start with, else the default tag
SniffedOrDefault(file) ==
    CASE file.magic = "BM"     -> ".bmp"
      [] file.magic = "FFD8FF" -> ".jpg"
      [] file.magic = "89PNG"  -> ".png"
      [] file.magic = "II*"    -> ".tif"
      [] OTHER                 -> ".jpeg"

\* the tag the order of C17 gives to_cv2 of x: the tag of x itself; else the
\* extension of the path; else the tag of the magic prefix; else '.jpeg'
TagByPriority(x) ==
    CASE x.type = "OpenCVImage" -> x.tag
      [] x.type = "PillowImage" /\ x.tag # "None" -> Dot(x.tag)
      [] x.type = "PillowImage" /\ x.tag = "None" -> ".jpeg"
      [] x.type = "ndarray" -> ".jpeg"
      [] x.type = "str" /\ x.file.codec \in Codecs ->
            IF x.ext # "" THEN x.ext ELSE SniffedOrDefault(x.file)
      [] x.type = "str" /\ x.file.codec \notin Codecs -> SniffedOrDefault(x.b64)
      [] x.type \in BytesLike -> SniffedOrDefault(x.file)

\* C17 as claimed: the image to_cv2 returns is tagged by that order.
C17_TagPriority ==
    \A k \in Returned :
        u_ops[k].op = "to_cv2" =>
            /\ Result(k).type = "OpenCVImage"
            /\ Result(k).tag = TagByPriority(Given(k))

\* a string that is neither the path of a file nor valid Base64
NeitherPathNorBase64(x) ==
    x.type = "str" /\ x.file = NoBytes /\ ~(x.strict /\ x.b64 # NoBytes)

\* bytes, or the valid Base64 text of bytes, that are no image
NoImageBytes(x) ==
    \/ x.type \in BytesLike /\ x.file.codec \notin Codecs
    \/ x.type = "str" /\ x.file = NoBytes /\ x.strict /\ x.b64 # NoBytes
          /\ x.b64.codec \notin Codecs

InvalidInputErrors == {InvalidPathOrBase64, "ValueError"}

\* C18 as claimed: to_cv2, to_pil and to_bytes of a string that is neither a
\* path nor valid Base64 raise 'Invalid path or Base64 string'; to_cv2 of
\* bytes (or of the valid Base64 text of bytes) that are no image raises an
\* invalid-input error; neither returns or raises another kind of error.
C18_InvalidInput ==
    \A k \in 1..Len(u_ops) :
        /\ (u_ops[k].op \in {"to_cv2", "to_pil", "to_bytes"}
              /\ NeitherPathNorBase64(Given(k)))
           => (k \in Failed /\ u_err = InvalidPathOrBase64)
        /\ (u_ops[k].op = "to_cv2" /\ NoImageBytes(Given(k)))
           => (k \in Failed /\ u_err \in InvalidInputErrors)

\* C19 as claimed: to_bytes and to_base64 of an OpenCVImage with one channel
\* return, the data is encoded by the codec of the tag of the image, and it
\* holds a one-channel image, with the same pixels for a lossless tag.
C19_GreyscaleEncodes ==
    \A k \in 1..Len(u_ops) :
        (/\ u_ops[k].op \in {"to_bytes", "to_base64"}
         /\ Given(k).type = "OpenCVImage"
         /\ Given(k).mode = "L"
         /\ EncoderOf(Given(k).tag) # "none")
        => /\ k \in Returned
           /\ LET data == IF u_ops[k].op = "to_bytes" THEN Result(k).file
                          ELSE Result(k).b64
              IN  /\ data.codec = EncoderOf(Given(k).tag)
                  /\ data.mode = "L"
                  /\ data.codec \in LosslessCodecs => data.px = Given(k).px

----------------------------------------------------------------------------
(* Claims about the geometry of a zoom selection *)

\* the selection lies inside the frame [0, width] x [0, height]
InsideFrame ==
    /\ g_in.x >= 0
    /\ g_in.y >= 0
    /\ g_in.x + g_in.w <= g_in.width
    /\ g_in.y + g_in.h <= g_in.height

\* (x / W, y / H, w / W, h / H, W, H)
PlainNormalisation ==
    <<Frac(g_in.x, g_in.width), Frac(g_in.y, g_in.height),
      Frac(g_in.w, g_in.width), Frac(g_in.h, g_in.height),
      Num(g_in.width), Num(g_in.height)>>

\* C20 as claimed: at angle 0, for a selection inside the frame, rotate_zoom
\* returns (x/W, y/H, w/W, h/H, W, H).
C20_PlainAtAngleZero ==
    (g_pc = "returned" /\ g_in.angle = 0 /\ InsideFrame) => g_out = PlainNormalisation

\* the canvas the selection is drawn on: the frame, turned with the image
CanvasWidth == IF g_in.angle \in {90, -90} THEN g_in.height ELSE g_in.width
CanvasHeight == IF g_in.angle \in {90, -90} THEN g_in.width ELSE g_in.height

\* the part of the selection that is on the canvas has no width or no height
\* (the selection is empty, or touches the canvas on an edge only, or lies
\* outside of it)
Degenerate ==
    \/ Min(g_in.x + g_in.w, CanvasWidth) - Max(g_in.x, 0) <= 0
    \/ Min(g_in.y + g_in.h, CanvasHeight) - Max(g_in.y, 0) <= 0

\* C21 as claimed: a selection whose part on the canvas has zero or negative
\* width or height, or that lies outside of the canvas, makes rotate_zoom
\* return None.
C21_DegenerateGivesNone ==
    (g_pc = "returned" /\ Degenerate) => g_out = <<>>

\* the selection lies inside the canvas [0, CanvasWidth] x [0, CanvasHeight]
InsideCanvas ==
    /\ g_in.x >= 0
    /\ g_in.y >= 0
    /\ g_in.x + g_in.w <= CanvasWidth
    /\ g_in.y + g_in.h <= CanvasHeight

\* the pre-image of the selection under the rotation of the frame, over W, H
PreImage ==
    LET W == g_in.width
        H == g_in.height
        x == g_in.x
        y == g_in.y
        w == g_in.w
        h == g_in.h
    IN  CASE g_in.angle = 180 -> <<Frac(W - x - w, W), Frac(H - y - h, H), Frac(w, W), Frac(h, H)>>
          [] g_in.angle = 90  -> <<Frac(W - y - h, W), Frac(x, H), Frac(h, W), Frac(w, H)>>
          [] g_in.angle = -90 -> <<Frac(y, W), Frac(H - x - w, H), Frac(h, W), Frac(w, H)>>
          [] OTHER -> <<>>

\* C27 as claimed: at the angles 180, 90 and -90, for a selection inside the
\* canvas, rotate_zoom returns the pre-image of the selection normalised by
\* the width and the height of the frame.
C27_QuarterTurnPreImage ==
    (g_pc = "returned" /\ g_in.angle \in {180, 90, -90} /\ InsideCanvas)
        => (g_out # <<>> /\ SubSeq(g_out, 1, 4) = PreImage)

----------------------------------------------------------------------------
(* Claims about the zoom history *)

\* the canvas of the Gui: the displayed image, turned by the slider's angle
GuiCanvasWidth == IF rotate_slider \in {90, -90} THEN DisplayedHeight ELSE DisplayedWidth
GuiCanvasHeight == IF rotate_slider \in {90, -90} THEN DisplayedWidth ELSE DisplayedHeight

\* the rectangle d, in half pixels, lies inside the canvas
InsideDisplayed(d) ==
    /\ d[1] + d[3] <= 2 * GuiCanvasWidth
    /\ d[2] + d[4] <= 2 * GuiCanvasHeight

\* select_zoom has just handled the drag of a rectangle inside the canvas
Confirmed ==
    /\ z_last'.handler = "select_zoom"
    /\ InsideDisplayed(z_last'.rect)

\* the fraction of the displayed frame the rectangle d is, at angle 0
FractionOf(d) ==
    <<Frac(d[1], 2 * DisplayedWidth), Frac(d[2], 2 * DisplayedHeight),
      Frac(d[3], 2 * DisplayedWidth), Frac(d[4], 2 * DisplayedHeight)>>

\* (x2 + x * w2, y2 + y * h2, w * w2, h * h2)
Nested(f, top) ==
    <<Plus(top[1], Times(f[1], top[3])), Plus(top[2], Times(f[2], top[4])),
      Times(f[3], top[3]), Times(f[4], top[4])>>

\* C22 as claimed: a selection that is the fraction f of the displayed frame,
\* confirmed with the slider at 0, pushes f on an empty history and
\* (x2 + x * w2, y2 + y * h2, w * w2, h * h2) on a history whose top is
\* (x2, y2, w2, h2).
C22_NestedComposition ==
    [][(Confirmed /\ rotate_slider = 0 /\ z_last'.rect[3] > 0 /\ z_last'.rect[4] > 0)
         => zoom_history' =
              Append(zoom_history,
                     IF zoom_history = <<>> THEN FractionOf(z_last'.rect)
                     ELSE Nested(FractionOf(z_last'.rect),
                                 zoom_history[Len(zoom_history)]))]_vars

\* the window shown: the top of the history, the full frame if it is empty
CurrentWindow(history) == IF history = <<>> THEN NoZoom ELSE history[Len(history)]

\* C23 as claimed: the history starts empty, a confirmed zoom pushes one
\* rectangle, undo removes the top entry and makes the entry below the
\* current window, and escape empties the history.
C23_HistoryIsStack ==
    /\ zoom_history = <<>>
    /\ [][/\ (z_last'.handler = "select_zoom" /\ zoom_history' # zoom_history)
               => (Len(zoom_history') = Len(zoom_history) + 1
                   /\ SubSeq(zoom_history', 1, Len(zoom_history)) = zoom_history)
          /\ (z_last'.handler = "undo" /\ zoom_history # <<>>)
               => (zoom_history' = SubSeq(zoom_history, 1, Len(zoom_history) - 1)
                   /\ ocr_params'.zoom = CurrentWindow(zoom_history'))
          /\ z_last'.handler = "escape" => zoom_history' = <<>>]_vars

\* rectangle a lies inside rectangle b
Within(a, b) ==
    /\ ~Less(a[1], b[1]) /\ ~IsNaN(a[1])
    /\ ~Less(a[2], b[2]) /\ ~IsNaN(a[2])
    /\ ~Less(Plus(b[1], b[3]), Plus(a[1], a[3]))
    /\ ~Less(Plus(b[2], b[4]), Plus(a[2], a[4]))

\* every entry lies inside the unit square and inside the entry below it
AllNested(history) ==
    \A i \in 1..Len(history) :
        /\ Within(history[i], FullFrame)
        /\ i > 1 => Within(history[i], history[i - 1])

\* C30 as claimed: a confirmed zoom whose selection lies within the
\* displayed frame keeps every entry of the history inside the unit square
\* and inside the entry below it.
C30_ZoomsAreNested ==
    [][(Confirmed /\ AllNested(zoom_history)) => AllNested(zoom_history')]_vars

\* C29 as claimed: the zoom last sent to the camera is the top of the zoom
\* history of Configure, or the full frame when the history is empty.
C29_CameraFollowsHistory ==
    c_capture # "off" =>
        c_camera = IF c_zoom_history = <<>> THEN FullFrame
                   ELSE c_zoom_history[Len(c_zoom_history)]

----------------------------------------------------------------------------
(* Claims about the busy indicator, the latest request and the cache prompt *)

\* a request of the preview is queued, or the worker is executing one
Busy ==
    \/ \E k \in 1..Len(queue) : ~IsSentinel(queue[k])
    \/ inflight # {}

\* C28 as claimed: the LED is on whenever a request is queued or is being
\* executed by the worker.
C28_LedOnWhileBusy == Busy => led

\* The GUI thread's event loop runs as well: a queued sig_ocr_text signal is
\* delivered to on_update_text.
FairSpecDelivery == FairSpecQueue /\ WF_vars(OnUpdateText)

\* the results delivered to on_update_text so far, in the order of delivery
\* (queued signals are delivered in the order they were emitted)
Delivered == SubSeq(emitted, 1, Len(emitted) - Len(signals))

\* the request of the last trigger was executed and its result is the last
\* one delivered
LatestDelivered ==
    /\ \E k \in 1..Len(calls) : calls[k].id = Len(reqs)
    /\ Delivered # <<>>
    /\ Delivered[Len(Delivered)].id = Len(reqs)
    /\ signals = <<>>

\* C25 as claimed: after the last trigger the worker eventually executes that
\* request and the final text delivered to on_update_text is its result.
C25_LatestRequestDelivered == <>[](reqs = <<>> \/ LatestDelivered)

\* the GUI thread waits in queue.get() of the drain loop (line 256)
BlockedInGet == ppc = "get" /\ queue = <<>>

\* the same, for the runs in which apply_ocr never blocks in its drain loop
C25_DeliveredUnlessBlocked ==
    <>[](reqs = <<>> \/ LatestDelivered \/ BlockedInGet)

\* C26 as claimed: if the task list or the parameters were modified since
\* the last cache() (or since the preview was created), closeEvent finds
\* ask_cache true and asks whether to keep the current settings.
C26_AskedWhenModified == (r_pc = "closed" /\ r_modified) => r_asked

----------------------------------------------------------------------------
(* Claims about the ssocr executable *)

\* every line of stderr is a 'TIFFReadDirectory: Warning' line
OnlyTiffWarnings(stderr) ==
    LET lines == splitlines(stderr)
    IN  \A k \in DOMAIN lines : startswith(lines[k], WarningPrefix)

\* C24: with debug off, _run returns the text of stdout (trailing whitespace
\* removed, decoded) when stderr is empty or holds only TIFFReadDirectory
\* warning lines, and raises RuntimeError with the text of stderr when some
\* line of stderr is not such a warning.
C24_TiffWarningsNotFatal ==
    (s_pc = "done" /\ s_in.found /\ ~s_in.debug) =>
        IF OnlyTiffWarnings(s_in.stderr)
        THEN s_out = [kind |-> "return",
                      value |-> decode(rstrip(s_in.stdout))]
        ELSE s_out = [kind |-> "raise", exc |-> "RuntimeError",
                      msg |-> decode(s_in.stderr)]

\* two warning lines on stderr, a digit on stdout: the digit is returned
C24_Witness ==
    /\ s_pc = "done"
    /\ s_in.found /\ ~s_in.debug
    /\ s_in.stderr = TagWarning \o <<10>> \o WarningPrefix \o <<13, 10>>
    /\ s_in.stdout = <<56, 10>>
    /\ s_out = [kind |-> "return", value |-> [str |-> <<56>>]]

\* a warning line followed by a message of ssocr: RuntimeError
C24_WitnessFailure ==
    /\ s_pc = "done"
    /\ s_in.found /\ ~s_in.debug
    /\ s_in.stderr = TagWarning \o <<10>> \o Failure \o <<10>>
    /\ s_out.kind = "raise"
    /\ s_out.exc = "RuntimeError"

====
